---- MODULE Spec2Model ----
(***************************************************************************)
(* Model of the active navigation engine of src/src/navparser.cpp          *)
(* (namespace navparser: class Map and namespace NavEngine).               *)
(*                                                                         *)
(* Lengths are integers counted in HALF world units, so that the jump      *)
(* height 41.5 is the integer 83 and a mesh with centres (0,0,0) and       *)
(* (100,0,0) has centres <<0,0,0>> and <<200,0,0>>.  A vector is a triple  *)
(* <<x, y, z>>.  A string is a sequence of one-character strings, so that  *)
(* strrchr, the truncation and snprintf of LevelInit are computed.         *)
(* The wall clock advances by TickMs milliseconds per game tick.           *)
(***************************************************************************)
EXTENDS Integers, Sequences, FiniteSets, TLC

\* ------------------------------------------------------------------ bounds
\* Last game tick the engine is followed to.
MaxTick == 5
\* Most ticks a crouch is followed for while the agent stays in the air.
MaxJumpTicks == 5

\* --------------------------------------------------------------- constants
PLAYER_WIDTH == 2 * 49
HALF_PLAYER_WIDTH == PLAYER_WIDTH \div 2
PLAYER_JUMP_HEIGHT == 2 * 41 + 1
\* crumbs[0].vec.DistTo(origin) < 50
ArrivalRadius == 2 * 50
\* crumbs[0].vec.z - origin.z > 18
JumpStep == 2 * 18
\* nav.stuck-time, milliseconds
stuck_time == 1000
\* last_jump.check(200)
JumpIntervalMs == 200
\* despam.test_and_set(1000)
DespamMs == 1000
\* ticks_since_jump > 3
MinCrouchTicks == 3
\* g_GlobalVars->interval_per_tick, in milliseconds
TickMs == 2500
\* int(10 / g_GlobalVars->interval_per_tick)
CacheTicks == 10000 \div TickMs
\* The wall clock at tick 0; a default-constructed Timer holds the epoch, 0.
BootMs == 40 * TickMs

\* nullptr for a CNavArea *
NullArea == 0
\* A vector or a path that is not there.
NoVec == <<>>
EmptyFn == [x \in {} |-> x]

\* ----------------------------------------------------------------- vectors
Abs(n) == IF n < 0 THEN -n ELSE n
Max2(a, b) == IF a < b THEN b ELSE a
Min2(a, b) == IF a < b THEN a ELSE b
Sign(n) == IF n < 0 THEN -1 ELSE IF n > 0 THEN 1 ELSE 0

VecSub(a, b) == <<a[1] - b[1], a[2] - b[2], a[3] - b[3]>>
VecAdd(a, b) == <<a[1] + b[1], a[2] + b[2], a[3] + b[3]>>
AsVector2D(v) == <<v[1], v[2]>>
\* v.z += h
RaiseZ(v, h) == <<v[1], v[2], v[3] + h>>

RECURSIVE ISqrt(_, _, _)
\* Integer square root (floor) of n, known to lie in lo..hi, by bisection.
ISqrt(n, lo, hi) ==
    IF lo >= hi
    THEN lo
    ELSE LET mid == (lo + hi + 1) \div 2
         IN  IF mid * mid <= n THEN ISqrt(n, mid, hi) ELSE ISqrt(n, lo, mid - 1)

LengthSqr(v) == v[1] * v[1] + v[2] * v[2] + v[3] * v[3]

\* Vector::Length, rounded down to a whole half unit.
VecLength(v) ==
    LET Between(a, b, c) == ISqrt(LengthSqr(v), Max2(a, Max2(b, c)), a + b + c)
    IN  Between(Abs(v[1]), Abs(v[2]), Abs(v[3]))

\* Vector::DistTo
DistTo(a, b) == VecLength(VecSub(a, b))

\* n / d rounded to the nearest integer (d > 0).
RoundDiv(n, d) == IF n >= 0 THEN (2 * n + d) \div (2 * d) ELSE -((2 * (-n) + d) \div (2 * d))

\* ------------------------------------------------------------------- areas
\* CNavArea: m_id, m_center, m_nwCorner (least x, y), m_seCorner (greatest
\* x, y), m_connections (area ids, in file order), m_attributeFlags.
\* m_attributeFlags is a bitmask; the two bits FollowCrumbs tests.
NAV_MESH_NO_JUMP == 8
NAV_MESH_STAIRS == 4096

RECURSIVE BitAnd(_, _)
\* a & b for bitmasks a, b >= 0
BitAnd(a, b) ==
    IF a = 0 \/ b = 0
    THEN 0
    ELSE (a % 2) * (b % 2) + 2 * BitAnd(a \div 2, b \div 2)

Area(id, c, hx, hy, conns, flags) ==
    [m_id |-> id, m_center |-> c,
     m_nwCorner |-> <<c[1] - hx, c[2] - hy, c[3]>>,
     m_seCorner |-> <<c[1] + hx, c[2] + hy, c[3]>>,
     m_connections |-> conns, m_attributeFlags |-> flags]

\* Two level areas side by side, centres 100 units apart, connected both ways.
MeshTwo ==
    <<Area(1, <<0, 0, 0>>, 100, 100, <<2>>, 0),
      Area(2, <<200, 0, 0>>, 100, 100, <<1>>, 0)>>

\* Four areas in a row, A-B-C-D; C forbids jumping, D lies 100 units lower.
MeshLine ==
    <<Area(1, <<0, 0, 0>>, 100, 100, <<2>>, 0),
      Area(2, <<200, 0, 0>>, 100, 100, <<1, 3>>, 0),
      Area(3, <<400, 0, 0>>, 100, 100, <<2, 4>>, NAV_MESH_NO_JUMP),
      Area(4, <<600, 0, -200>>, 100, 100, <<3>>, 0)>>

\* Three areas: B lies 200 units above A and covers the same ground, C is
\* level with A and shares an edge with it.
MeshStack ==
    <<Area(1, <<0, 0, 0>>, 100, 100, <<3>>, 0),
      Area(2, <<0, 0, 400>>, 100, 100, <<>>, 0),
      Area(3, <<200, 0, 0>>, 100, 100, <<1>>, 0)>>

\* Two areas touching at a corner, B 100 units above A, connected both ways.
MeshDiag ==
    <<Area(1, <<0, 0, 0>>, 100, 100, <<2>>, 0),
      Area(2, <<300, 300, 200>>, 100, 100, <<1>>, 0)>>

\* Three areas, each 100 units below the last: B to the west of A, C to
\* the north of B.  The way down from A points along -x, from B along +y.
MeshBack ==
    <<Area(1, <<0, 0, 0>>, 100, 100, <<2>>, 0),
      Area(2, <<-200, 0, -200>>, 100, 100, <<1, 3>>, 0),
      Area(3, <<-200, 200, -400>>, 100, 100, <<>>, 0)>>

\* A file that parses to no area at all.
MeshEmpty == <<>>

AreaIds(mesh) == DOMAIN mesh

\* CNavArea::getZ: the areas of the meshes above are level.
getZ(area, x, y) == area.m_center[3]

\* CNavArea::getNearestPoint: the point clamped into the area's extent.
getNearestPoint(area, p) ==
    LET At(x, y) == <<x, y, getZ(area, x, y)>>
    IN  At(Min2(Max2(p[1], area.m_nwCorner[1]), area.m_seCorner[1]),
           Min2(Max2(p[2], area.m_nwCorner[2]), area.m_seCorner[2]))

\* CNavArea::IsOverlapping(vec, tolerance = 0)
IsOverlapping(area, vec) ==
    /\ vec[1] >= area.m_nwCorner[1]
    /\ vec[1] <= area.m_seCorner[1]
    /\ vec[2] >= area.m_nwCorner[2]
    /\ vec[2] <= area.m_seCorner[2]

\* ---------------------------------------------------------------- geometry
\* The flattened direction of v: <<0, 0>> for a vertical or null vector.
Flat(v) == <<v[1], v[2]>>

\* GetForwardVector(origin, angles, distance) for the angles of the
\* flattened direction d: origin moved by distance along d, each coordinate
\* rounded to a whole half unit.  A null d has pitch 90: straight down.
GetForwardVector(origin, d, distance) ==
    IF d = <<0, 0>>
    THEN <<origin[1], origin[2], origin[3] - distance>>
    ELSE LET Moved(len) == <<origin[1] + RoundDiv(distance * d[1], len),
                               origin[2] + RoundDiv(distance * d[2], len),
                               origin[3]>>
         IN  Moved(VecLength(<<d[1], d[2], 0>>))

\* angles != new_angles in handleDropdown (133), for the step of
\* PLAYER_WIDTH from current_pos along the flattened direction d to
\* next_pos.  The angles are floats compared exactly.  Where the step
\* reaches or passes next_pos the new direction is null or opposite and the
\* angles differ; where d points along +x (yaw 0, sine 0, cosine 1) the
\* step and both angles are exact and the angles agree.  Everywhere else
\* the two directions agree in exact arithmetic and their float angles
\* agree or lie an ulp apart as the float routines round them for these
\* two points: apart is the set of the pairs <<current_pos, next_pos>> for
\* which they come apart.  A null d has pitch 90 and the step goes straight
\* down, off by the float cosine of 90 degrees, which the sum keeps or
\* loses.
AnglesChanged(current_pos, next_pos, apart) ==
    LET Changed(d) ==
            IF d = <<0, 0>>
            THEN <<current_pos, next_pos>> \in apart
            ELSE IF d[1] * d[1] + d[2] * d[2] <= PLAYER_WIDTH * PLAYER_WIDTH
            THEN TRUE
            ELSE IF d[2] = 0 /\ d[1] > 0
            THEN FALSE
            ELSE <<current_pos, next_pos>> \in apart
    IN  Changed(Flat(VecSub(next_pos, current_pos)))

\* A handleDropdown that steps forward before every waypoint, drop or not.
handleDropdownAlways(current_pos, next_pos, apart) ==
    IF AnglesChanged(current_pos, next_pos, apart)
    THEN next_pos
    ELSE GetForwardVector(current_pos, Flat(VecSub(next_pos, current_pos)), PLAYER_WIDTH)

\* Returns corrected "current_pos"
handleDropdown(current_pos, next_pos, apart) ==
    LET Corrected(to_target) ==
            \* Only do it if we'd fall quite a bit
            IF -to_target[3] > PLAYER_JUMP_HEIGHT
            THEN \* If the angles changed, we must have overshot
                 IF AnglesChanged(current_pos, next_pos, apart)
                 THEN next_pos
                 ELSE GetForwardVector(current_pos, Flat(to_target), PLAYER_WIDTH)
            ELSE current_pos
    IN  Corrected(VecSub(next_pos, current_pos))

\* class navPoints
navPoints(A, B, C) == [current |-> A, center |-> B, next |-> C]

\* A determinePoints that always takes the point of the current area.
determinePointsNear(current, next) ==
    navPoints(current.m_center, getNearestPoint(current, AsVector2D(next.m_center)),
              next.m_center)

\* This function ensures that vischeck and pathing use the same logic.
determinePoints(current, next) ==
    LET Points(area_center, next_center, area_closest, next_closest) ==
            navPoints(area_center,
                      IF /\ area_closest[1] # area_center[1]
                         /\ area_closest[2] # area_center[2]
                         /\ area_closest[1] # next_center[1]
                         /\ area_closest[2] # next_center[2]
                      THEN next_closest
                      ELSE area_closest,
                      next_center)
    IN  Points(current.m_center, next.m_center,
               getNearestPoint(current, AsVector2D(next.m_center)),
               getNearestPoint(next, AsVector2D(current.m_center)))

\* ------------------------------------------------------------- ray oracles
\* The world is [walls, fog]: walls holds the rays <<origin, endpos, side>>
\* of a player-wide check from origin to endpos that hit solid geometry
\* (side "left" or "right"), fog the pairs <<from, to>> between which
\* IsVectorVisibleNavigation sees nothing.

\* Cast a Ray and return if it hit
CastRay(world, origin, endpos, side) == <<origin, endpos, side>> \in world.walls

\* Vischeck that considers player width: [ok, rays], rays the number of
\* rays cast; the right ray is cast only when the left one hit nothing.
IsPlayerPassableNavigation(world, origin, target) ==
    IF CastRay(world, origin, target, "left")
    THEN [ok |-> FALSE, rays |-> 1]
    ELSE [ok |-> ~CastRay(world, origin, target, "right"), rays |-> 2]

IsVectorVisibleNavigation(world, from, to) == <<from, to>> \notin world.fog

\* -------------------------------------------------------------- class Map
NavState_Unavailable == "Unavailable"
NavState_Active == "Active"

\* struct CachedConnection
CachedConnection(expire_tick, vischeck_state) ==
    [expire_tick |-> expire_tick, vischeck_state |-> vischeck_state]

\* micropather::StateCost
StateCost(state, cost) == [state |-> state, cost |-> cost]

\* Map::LeastCostEstimate
LeastCostEstimate(mesh, start, end) == DistTo(mesh[start].m_center, mesh[end].m_center)

\* The points of the connection main -> next as AdjacentCost hands them to
\* the two visibility checks: dropdown applied, then raised by the jump height.
RayPoints(mesh, main, next, apart) ==
    LET Raised(points) ==
            navPoints(RaiseZ(handleDropdown(points.current, points.center, apart), PLAYER_JUMP_HEIGHT),
                      RaiseZ(handleDropdown(points.center, points.next, apart), PLAYER_JUMP_HEIGHT),
                      RaiseZ(points.next, PLAYER_JUMP_HEIGHT))
    IN  Raised(determinePoints(mesh[main], mesh[next]))

\* An AdjacentCost whose edges cost nothing.
OfferFree(next, allowed, cost) == IF allowed THEN <<StateCost(next, 0)>> ELSE <<>>

\* An AdjacentCost that offers every connection it evaluates.
OfferAlways(next, allowed, cost) == <<StateCost(next, cost)>>

\* adjacent->push_back(StateCost{ connection.area, cost }) when the
\* connection is allowed: what the iteration adds to adjacent.
Offer(next, allowed, cost) == IF allowed THEN <<StateCost(next, cost)>> ELSE <<>>

\* An AdjacentCost that never finds the key.
CacheMiss(cache, key) == FALSE

\* cached != vischeck_cache.end() for cached = vischeck_cache.find(key)
CacheHit(cache, key) == key \in DOMAIN cache

\* One iteration of the loop of Map::AdjacentCost, for the connection from
\* main to next: [offer, cache, eval].  offer is what the iteration adds to
\* adjacent, cache the cache afterwards, eval what was decided for the
\* connection: whether it was accepted, on what basis ("excluded", "cache"
\* or "fresh"), how many visibility checks were made (each casts its rays),
\* the expiry of the cache entry used or made, and the offer itself.
AdjacentCostStep(mesh, world, tick, cache, main, next) ==
    LET Decision(key, basis, offer, newcache, rays, expire_tick) ==
            [offer |-> offer, cache |-> newcache,
             eval |-> [key |-> key, basis |-> basis, accepted |-> offer # <<>>,
                       rays |-> rays, expire_tick |-> expire_tick, offer |-> offer]]
        \* Too high for us to jump!
        Excluded(key) == Decision(key, "excluded", <<>>, cache, 0, 0)
        Cached(key, allowed) ==
            Decision(key, "cache",
                     Offer(next, cache[key].vischeck_state \/ allowed,
                           DistTo(mesh[next].m_center, mesh[main].m_center)),
                     cache, 0, cache[key].expire_tick)
        Fresh(key, allowed, rp, first, second) ==
            Decision(key, "fresh",
                     Offer(next, (first.ok /\ second.ok) \/ allowed, DistTo(rp.next, rp.current)),
                     (key :> CachedConnection(tick + CacheTicks, first.ok /\ second.ok)) @@ cache,
                     first.rays + (IF first.ok THEN second.rays ELSE 0),
                     tick + CacheTicks)
        Decide(key, height_diff, allowed, rp) ==
            IF height_diff > PLAYER_JUMP_HEIGHT
            THEN Excluded(key)
            ELSE IF CacheHit(cache, key)
            THEN Cached(key, allowed)
            ELSE Fresh(key, allowed, rp,
                       IsPlayerPassableNavigation(world, rp.current, rp.center),
                       IsPlayerPassableNavigation(world, rp.center, rp.next))
        Heights(points) ==
            Decide(<<main, next>>,
                   points.current[3] - points.center[3],
                   points.current[3] - points.center[3] <= -PLAYER_JUMP_HEIGHT,
                   RayPoints(mesh, main, next, world.apart))
    IN  Heights(determinePoints(mesh[main], mesh[next]))

RECURSIVE AdjacentCostLoop(_, _, _, _, _, _, _)
\* The loop of Map::AdjacentCost from connection i on; acc is
\* [adjacent, cache, evals] so far.
AdjacentCostLoop(mesh, world, tick, main, conns, i, acc) ==
    IF i > Len(conns)
    THEN acc
    ELSE LET After(r) ==
                 AdjacentCostLoop(mesh, world, tick, main, conns, i + 1,
                                  [adjacent |-> acc.adjacent \o r.offer,
                                   cache |-> r.cache,
                                   evals |-> Append(acc.evals, r.eval)])
         IN  After(AdjacentCostStep(mesh, world, tick, acc.cache, main, conns[i]))

\* Map::AdjacentCost(main, adjacent): [adjacent, cache, evals].
AdjacentCost(mesh, world, tick, cache, main) ==
    AdjacentCostLoop(mesh, world, tick, main, mesh[main].m_connections, 1,
                     [adjacent |-> <<>>, cache |-> cache, evals |-> <<>>])

RECURSIVE findClosestLoop(_, _, _, _, _)
\* The loop of Map::findClosestNavSquare from area i on.  Distances are
\* compared by their squares; a dist of -1 stands for FLT_MAX.
findClosestLoop(mesh, world, vec, i, acc) ==
    IF i > Len(mesh)
    THEN acc
    ELSE LET Best(dist) ==
                 IF acc.bestDist = -1 \/ dist < acc.bestDist
                 THEN [acc EXCEPT !.bestDist = dist, !.bestSquare = i]
                 ELSE acc
             \* Check if we are within x and y bounds of an area
             Skip(dist) ==
                 \/ (acc.ovBestDist # -1 /\ acc.ovBestDist < dist)
                 \/ ~IsOverlapping(mesh[i], vec)
                 \/ ~IsVectorVisibleNavigation(world, RaiseZ(vec, PLAYER_JUMP_HEIGHT),
                                               RaiseZ(mesh[i].m_center, PLAYER_JUMP_HEIGHT))
             Step(dist, acc1) ==
                 IF Skip(dist)
                 THEN acc1
                 ELSE [acc1 EXCEPT !.ovBestDist = dist, !.ovBestSquare = i]
             At(dist) == findClosestLoop(mesh, world, vec, i + 1, Step(dist, Best(dist)))
         IN  At(LengthSqr(VecSub(mesh[i].m_center, vec)))

\* A search without the fallback to the area nearest by centre.
findOverlappingNavSquare(mesh, world, vec) ==
    findClosestLoop(mesh, world, vec, 1,
        [bestDist |-> -1, bestSquare |-> NullArea,
         ovBestDist |-> -1, ovBestSquare |-> NullArea]).ovBestSquare

\* A search that returns the area nearest by centre, whatever overlaps.
findNearestNavSquare(mesh, world, vec) ==
    findClosestLoop(mesh, world, vec, 1,
        [bestDist |-> -1, bestSquare |-> NullArea,
         ovBestDist |-> -1, ovBestSquare |-> NullArea]).bestSquare

\* Function for getting closest Area to player, aka "LocalNav".
findClosestNavSquare(mesh, world, vec) ==
    LET Result(r) == IF r.ovBestSquare = NullArea THEN r.bestSquare ELSE r.ovBestSquare
    IN  Result(findClosestLoop(mesh, world, vec, 1,
                   [bestDist |-> -1, bestSquare |-> NullArea,
                    ovBestDist |-> -1, ovBestSquare |-> NullArea]))

\* ------------------------------------------------- micropather::MicroPather
\* The search oracle.  Its state, pather, is the adjacency it has cached:
\* a function from the nodes it has expanded since its last Reset to the
\* StateCost sequence AdjacentCost gave for them.
SOLVED == 0
NO_SOLUTION == 1
START_END_SAME == 2

\* MicroPather::Reset
PatherReset == EmptyFn

\* The node of open with the least total cost, the least id among equals.
OpenPop(mesh, open, g, end) ==
    LET Before(n, m, fn, fm) == fn < fm \/ (fn = fm /\ n <= m)
    IN  CHOOSE n \in open : \A m \in open :
            Before(n, m, g[n] + LeastCostEstimate(mesh, n, end),
                         g[m] + LeastCostEstimate(mesh, m, end))

RECURSIVE PathTo(_, _, _)
\* The path from the start to node n, along the parents.
PathTo(parent, start, n) ==
    IF n = start THEN <<start>> ELSE Append(PathTo(parent, start, parent[n]), n)

RECURSIVE Relax(_, _, _, _)
\* The neighbour loop of MicroPather::Solve for the expanded node, from
\* neighbour i on; st is [open, closed, g, parent].
Relax(node, costs, i, st) ==
    IF i > Len(costs)
    THEN st
    ELSE LET Reach(child, newCost) ==
                 IF child \in st.open \cup st.closed
                 THEN IF newCost < st.g[child]
                      THEN [st EXCEPT !.g = (child :> newCost) @@ st.g,
                                      !.parent = (child :> node) @@ st.parent]
                      ELSE st
                 ELSE [st EXCEPT !.g = (child :> newCost) @@ st.g,
                                 !.parent = (child :> node) @@ st.parent,
                                 !.open = st.open \cup {child}]
         IN  Relax(node, costs, i + 1, Reach(costs[i].state, st.g[node] + costs[i].cost))

RECURSIVE SolveLoop(_, _, _, _, _, _, _)
\* The main loop of MicroPather::Solve; st is [open, closed, g, parent],
\* io is [cache, pather, evals]: the visibility cache and the adjacency
\* cache as the calls of AdjacentCost leave them, and what they decided.
SolveLoop(mesh, world, tick, startNode, endNode, st, io) ==
    LET Closed(node) == [st EXCEPT !.open = st.open \ {node}, !.closed = st.closed \cup {node}]
        \* The node's neighbours come from the oracle's cache ...
        Known(node) ==
            SolveLoop(mesh, world, tick, startNode, endNode,
                      Relax(node, io.pather[node], 1, Closed(node)), io)
        \* ... or from Graph::AdjacentCost, and are cached.
        Asked(node, ac) ==
            SolveLoop(mesh, world, tick, startNode, endNode,
                      Relax(node, ac.adjacent, 1, Closed(node)),
                      [cache |-> ac.cache,
                       pather |-> (node :> ac.adjacent) @@ io.pather,
                       evals |-> io.evals \o ac.evals])
        Expand(node) ==
            IF node = endNode
            THEN [result |-> SOLVED, path |-> PathTo(st.parent, startNode, node), io |-> io]
            ELSE IF node \in DOMAIN io.pather
            THEN Known(node)
            ELSE Asked(node, AdjacentCost(mesh, world, tick, io.cache, node))
    IN  IF st.open = {}
        THEN [result |-> NO_SOLUTION, path |-> <<>>, io |-> io]
        ELSE Expand(OpenPop(mesh, st.open, st.g, endNode))

\* MicroPather::Solve(startNode, endNode, &path, &cost): [result, path, io].
\* The path is cleared first and filled only when the search succeeds.
Solve(mesh, world, tick, cache, pather, startNode, endNode) ==
    IF startNode = endNode
    THEN [result |-> START_END_SAME, path |-> <<>>,
          io |-> [cache |-> cache, pather |-> pather, evals |-> <<>>]]
    ELSE SolveLoop(mesh, world, tick, startNode, endNode,
                   [open |-> {startNode}, closed |-> {},
                    g |-> (startNode :> 0), parent |-> EmptyFn],
                   [cache |-> cache, pather |-> pather, evals |-> <<>>])

\* Map::findPath(local, dest) on the map m: [path, io, result].  path is
\* what it returns, result what pather.Solve returned, if it was called.
findPath(m, world, tick, local, dest) ==
    LET Checked(r) ==
            \* If no result found, return empty Vector
            IF 0 = NO_SOLUTION
            THEN [path |-> <<>>, io |-> r.io, result |-> <<r.result>>]
            ELSE [path |-> r.path, io |-> r.io, result |-> <<r.result>>]
    IN  IF m.state # NavState_Active
        THEN [path |-> <<>>,
              io |-> [cache |-> m.vischeck_cache, pather |-> m.pather, evals |-> <<>>],
              result |-> <<>>]
        ELSE Checked(Solve(m.navfile.m_areas, world, tick, m.vischeck_cache, m.pather, local, dest))

\* A sweep that also erases the entries expiring at the current tick.
ExpiredOrDue(cache, tick) == {k \in DOMAIN cache : cache[k].expire_tick <= tick}

\* The entries of the cache that Map::updateIgnores erases at this tick.
Expired(cache, tick) == {k \in DOMAIN cache : cache[k].expire_tick < tick}

\* A sweep that resets the oracle whatever it erased.
SweepAndReset(m, tick) ==
    [cache |-> [k \in DOMAIN m.vischeck_cache \ Expired(m.vischeck_cache, tick) |->
                   m.vischeck_cache[k]],
     pather |-> PatherReset,
     erased |-> TRUE]

\* The body of Map::updateIgnores past the despam timer: [cache, pather,
\* erased].
SweepIgnores(m, tick) ==
    LET Erase(gone) ==
            [cache |-> [k \in DOMAIN m.vischeck_cache \ gone |-> m.vischeck_cache[k]],
             pather |-> IF gone # {} THEN PatherReset ELSE m.pather,
             erased |-> gone # {}]
    IN  Erase(Expired(m.vischeck_cache, tick))

\* A reset that only resets the oracle.
MapResetPather(m) == [cache |-> m.vischeck_cache, pather |-> PatherReset]

\* Map::Reset: [cache, pather].
MapReset(m) == [cache |-> EmptyFn, pather |-> PatherReset]

\* ------------------------------------------------------------------- files
\* The level names the engine reports, the working directory, and the nav
\* files on disk.  "t.b" has a two-area mesh, "l.b" the four-area row,
\* "x.b" a file that does not parse, "e.b" a mesh without areas, "s.b" the
\* stacked areas, "d.b" the two areas on a diagonal; "n" is a level name
\* without a dot.
Lvl_t == <<"t", ".", "b">>
Lvl_l == <<"l", ".", "b">>
Lvl_x == <<"x", ".", "b">>
Lvl_e == <<"e", ".", "b">>
Lvl_s == <<"s", ".", "b">>
Lvl_d == <<"d", ".", "b">>
Lvl_k == <<"k", ".", "b">>
Lvl_n == <<"n">>
Cwd == <<"/", "w">>

\* lvl_name[255] = 0 after strncpy(lvl_name, level_name, 255)
LvlNameMax == 255

\* std::strncpy(lvl_name, level_name, 255)
Truncate(str, n) == IF Len(str) <= n THEN str ELSE SubSeq(str, 1, n)

\* std::strrchr(lvl_name, '.'): the index of the last dot, 0 when there is none.
StrRChr(str, ch) ==
    IF \E i \in 1..Len(str) : str[i] = ch
    THEN CHOOSE i \in 1..Len(str) : str[i] = ch /\ \A j \in (i + 1)..Len(str) : str[j] # ch
    ELSE 0

\* char nav_path[PATH_MAX + 1]
PATH_MAX == 4096

\* std::snprintf(nav_path, sizeof(nav_path), "%s/tf/%s.nav", cwd, lvl_name):
\* at most PATH_MAX characters are written.
NavPath(cwd, lvl_name) ==
    Truncate(cwd \o <<"/", "t", "f", "/">> \o lvl_name \o <<".", "n", "a", "v">>, PATH_MAX)

\* CNavFile(path): [m_isOK, m_areas].
CNavFile(path) ==
    IF path = NavPath(Cwd, <<"t">>) THEN [m_isOK |-> TRUE, m_areas |-> MeshTwo]
    ELSE IF path = NavPath(Cwd, <<"l">>) THEN [m_isOK |-> TRUE, m_areas |-> MeshLine]
    ELSE IF path = NavPath(Cwd, <<"e">>) THEN [m_isOK |-> TRUE, m_areas |-> MeshEmpty]
    ELSE IF path = NavPath(Cwd, <<"s">>) THEN [m_isOK |-> TRUE, m_areas |-> MeshStack]
    ELSE IF path = NavPath(Cwd, <<"d">>) THEN [m_isOK |-> TRUE, m_areas |-> MeshDiag]
    ELSE IF path = NavPath(Cwd, <<"k">>) THEN [m_isOK |-> TRUE, m_areas |-> MeshBack]
    ELSE [m_isOK |-> FALSE, m_areas |-> <<>>]

\* An empty std::unique_ptr<Map>.
NoMap == [loaded |-> FALSE]

\* Map::Map(mapname)
NewMap(mapname) ==
    LET Made(navfile) ==
            [loaded |-> TRUE,
             navfile |-> navfile,
             state |-> IF ~navfile.m_isOK THEN NavState_Unavailable ELSE NavState_Active,
             mapname |-> mapname,
             vischeck_cache |-> EmptyFn,
             pather |-> PatherReset]
    IN  Made(CNavFile(mapname))

\* ------------------------------------------------------------------- state
VARIABLES
    level_name,        \* g_IEngine->GetLevelName()
    enabled,           \* settings nav.enabled
    map,               \* NavEngine::map, NoMap for an empty unique_ptr
    crumbs,            \* NavEngine::crumbs
    inactivity,        \* static Timer inactivity: its last, in ms
    last_jump,         \* static Timer last_jump
    despam,            \* static Timer despam of Map::updateIgnores
    crouch,            \* static bool crouch
    ticks_since_jump,  \* static int ticks_since_jump
    tickcount,         \* g_GlobalVars->tickcount
    v_Origin,          \* g_pLocalPlayer->v_Origin
    world,             \* the solid geometry the rays are cast against
    loc,               \* Vector loc of the debug commands
    out,               \* what the last operation returned and issued
    lastEval           \* per connection evaluated since the last sweep, reset
                       \* or load: whether its last evaluation accepted it

vars == <<level_name, enabled, map, crumbs, inactivity, last_jump, despam, crouch,
          ticks_since_jump, tickcount, v_Origin, world, loc, out, lastEval>>

engineVars == <<level_name, enabled, tickcount, v_Origin, world, loc>>
followVars == <<crumbs, inactivity, last_jump, crouch, ticks_since_jump>>

\* The wall clock, in ms.
Clock == BootMs + tickcount * TickMs

\* Timer::check(ms) for a timer whose last is the given one.
TimerCheck(last, ms) == Clock - last >= ms

\* A crumb that forgets its area.
CrumbNowhere(navarea, vec) == [navarea |-> NullArea, vec |-> vec]

\* struct Crumb
Crumb(navarea, vec) == [navarea |-> navarea, vec |-> vec]

\* The inputs of one tick, read from the entity and the local player:
\* bad is CE_BAD(LOCAL_E), alive is m_bAlivePlayer(), moving is
\* !vel.IsZero(100.0f), zoomed is holding_sniper_rifle && bZoomed, revved is
\* bRevved || bRevving, onground is iFlags & FL_ONGROUND.
TickInput(bad, alive, moving, zoomed, revved, onground) ==
    [bad |-> bad, alive |-> alive, moving |-> moving, zoomed |-> zoomed,
     revved |-> revved, onground |-> onground]

\* What an operation reports: its name, its return value, the buttons set in
\* current_user_cmd, the target handed to WalkTo, the path findPath gave,
\* the destination asked for and whether the route was to start at the
\* local area (nav_to_local), the evaluations AdjacentCost made, the keys
\* erased from the cache, whether pather.Reset() was called, what
\* pather.Solve returned if called, the branch LevelInit took, the inputs
\* of the tick, the area findClosestNavSquare returned, the arguments and
\* the points of a call of determinePoints, and whether the tick erased the
\* head crumb.
Out(op, ret) ==
    [op |-> op, ret |-> ret, buttons |-> {}, walk |-> NoVec, path |-> <<>>,
     dest |-> NoVec, local |-> FALSE, evals |-> <<>>, erased |-> {}, reset |-> FALSE,
     result |-> <<>>, branch |-> "", in |-> TickInput(FALSE, FALSE, FALSE, FALSE, FALSE, FALSE),
     area |-> NullArea, args |-> <<>>, points |-> <<>>, popped |-> FALSE]

\* lastEval after the evaluations evals.
Record(le, evals) ==
    [k \in DOMAIN le \cup {evals[i].key : i \in DOMAIN evals} |->
        IF \E i \in DOMAIN evals : evals[i].key = k
        THEN evals[CHOOSE j \in DOMAIN evals :
                       evals[j].key = k /\ \A h \in DOMAIN evals : evals[h].key = k => h <= j].accepted
        ELSE le[k]]

\* An isReady that does not look at the state of the map.
isReadyLoaded == enabled /\ map.loaded

\* NavEngine::isReady
isReady == enabled /\ map.loaded /\ map.state = NavState_Active

\* ---------------------------------------------------------- NavEngine
\* A navTo that pushes one crumb per area, its centre.
ExpandCenters(mesh, path, i, apart) == [j \in 1..Len(path) |-> Crumb(path[j], mesh[path[j]].m_center)]

RECURSIVE ExpandPath(_, _, _, _)
\* The loop of navTo over the path, from entry i on: the crumbs pushed.
ExpandPath(mesh, path, i, apart) ==
    LET \* All entries besides the last need an extra crumb
        Two(area, points) ==
            <<Crumb(area, handleDropdown(points.current, points.center, apart)),
              Crumb(area, handleDropdown(points.center, points.next, apart))>>
    IN  IF i > Len(path)
        THEN <<>>
        ELSE IF i # Len(path)
        THEN Two(path[i], determinePoints(mesh[path[i]], mesh[path[i + 1]]))
             \o ExpandPath(mesh, path, i + 1, apart)
        ELSE <<Crumb(path[i], mesh[path[i]].m_center)>>

\* A navTo that keeps the first entry of the path.
EraseNone(path) == path

\* path.erase(path.begin())
EraseFirst(path) == SubSeq(path, 2, Len(path))

\* A navTo that does not clear the queue.
KeepCrumbs(q) == q

\* crumbs.clear()
ClearCrumbs(q) == <<>>

\* A navTo that goes on with an empty path.
NoPathIgnored(path) == FALSE

\* if (path.empty()) return false, for the path findPath returned
NoPath(path) == path = <<>>

\* The body of NavEngine::navTo once isReady holds: [ret, crumbs, path, io,
\* result], with the path and the result of findPath.
PlanRoute(destination, nav_to_local) ==
    LET mesh == map.navfile.m_areas
        Failed(path, io, result) ==
            [ret |-> FALSE, crumbs |-> ClearCrumbs(crumbs), path |-> path, io |-> io,
             result |-> result]
        Expanded(found, path) ==
            [ret |-> TRUE,
             crumbs |-> Append(ClearCrumbs(crumbs) \o ExpandPath(mesh, path, 1, world.apart),
                               Crumb(NullArea, destination)),
             path |-> found.path, io |-> found.io, result |-> found.result]
        Found(found) ==
            IF NoPath(found.path)
            THEN Failed(found.path, found.io, found.result)
            ELSE IF nav_to_local
            THEN Expanded(found, found.path)
            ELSE IF EraseFirst(found.path) = <<>>
            THEN Failed(found.path, found.io, found.result)
            ELSE Expanded(found, EraseFirst(found.path))
        Areas(start_area, dest_area) ==
            IF start_area = NullArea \/ dest_area = NullArea
            THEN Failed(<<>>, [cache |-> map.vischeck_cache, pather |-> map.pather, evals |-> <<>>], <<>>)
            ELSE Found(findPath(map, world, tickcount, start_area, dest_area))
    IN  Areas(findClosestNavSquare(mesh, world, v_Origin),
              findClosestNavSquare(mesh, world, destination))

\* bool navTo(destination, priority, should_repath, nav_to_local, is_repath)
navTo(destination, nav_to_local) ==
    IF ~isReady
    THEN /\ out' = [Out("navTo", FALSE) EXCEPT !.dest = destination, !.local = nav_to_local]
         /\ UNCHANGED <<engineVars, followVars, map, despam, lastEval>>
    ELSE \E r \in {PlanRoute(destination, nav_to_local)} :
             /\ crumbs' = r.crumbs
             /\ inactivity' = IF r.ret THEN Clock ELSE inactivity
             /\ map' = [map EXCEPT !.vischeck_cache = r.io.cache, !.pather = r.io.pather]
             /\ lastEval' = Record(lastEval, r.io.evals)
             /\ out' = [Out("navTo", r.ret) EXCEPT !.dest = destination, !.local = nav_to_local,
                                                   !.path = r.path, !.evals = r.io.evals,
                                                   !.result = r.result]
             /\ UNCHANGED <<engineVars, last_jump, despam, crouch, ticks_since_jump>>

IN_JUMP == "IN_JUMP"
IN_DUCK == "IN_DUCK"

\* A jump check that only looks for stairs.
AreaAllowsJumpOffStairs(mesh, local) ==
    \/ local = NullArea
    \/ BitAnd(mesh[local].m_attributeFlags, NAV_MESH_STAIRS) = 0

\* Check if current area allows jumping:
\* !local || !(local->m_attributeFlags & (NAV_MESH_NO_JUMP | NAV_MESH_STAIRS))
AreaAllowsJump(mesh, local) ==
    \/ local = NullArea
    \/ LET BitOr(a, b) == a + b - BitAnd(a, b)
       IN  BitAnd(mesh[local].m_attributeFlags, BitOr(NAV_MESH_NO_JUMP, NAV_MESH_STAIRS)) = 0

\* A FollowCrumbs that takes the agent for stuck at once.
StuckAtOnce(last) == TRUE

\* Jump if stuck (not getting closer) for more than stuck_time/2:
\* inactivity.check(*stuck_time / 2)
Stuck(last) == TimerCheck(last, stuck_time \div 2)

\* A FollowCrumbs that finds the crumb reached wherever the agent is.
CloseEnoughAlways(vec, origin) == TRUE

\* A FollowCrumbs that never finds the crumb reached.
CloseEnoughNever(vec, origin) == FALSE

\* We are close enough to the crumb to have reached it:
\* crumbs[0].vec.DistTo(g_pLocalPlayer->v_Origin) < 50
CloseEnough(vec, origin) == LengthSqr(VecSub(vec, origin)) < ArrivalRadius * ArrivalRadius

\* static void FollowCrumbs(): the queue, the timers and the flags after the
\* tick, with the buttons set and the target handed to WalkTo.
FollowCrumbs(in) ==
    LET State(q, inact, jump, c, t, buttons, walk) ==
            [crumbs |-> q, inactivity |-> inact, last_jump |-> jump, crouch |-> c,
             ticks_since_jump |-> t, buttons |-> buttons, walk |-> walk]
        mesh == map.navfile.m_areas
        \* Make it crouch until we land, but jump the first tick
        Jump(q, inact, ticks1, landed) ==
            State(q, inact, IF landed THEN Clock ELSE last_jump, ~landed, ticks1,
                  {IF crouch THEN IN_DUCK ELSE IN_JUMP}, q[1].vec)
        Wants(q, inact) ==
            \/ /\ ~in.zoomed
               /\ ~in.revved
               /\ (crouch \/ q[1].vec[3] - v_Origin[3] > JumpStep)
               /\ TimerCheck(last_jump, JumpIntervalMs)
            \/ /\ TimerCheck(last_jump, JumpIntervalMs)
               /\ Stuck(inact)
        Steer(q, inact, ticks1) ==
            IF Wants(q, inact) /\ AreaAllowsJump(mesh, findClosestNavSquare(mesh, world, v_Origin))
            THEN Jump(q, inact, ticks1, in.onground /\ ticks1 > MinCrouchTicks)
            ELSE State(q, inact, last_jump, crouch, ticks_since_jump, {}, q[1].vec)
        \* We are close enough to the crumb to have reached it
        Reached(q) ==
            IF q = <<>>
            THEN State(q, inactivity, last_jump, crouch, ticks_since_jump, {}, NoVec)
            ELSE Steer(q, Clock, (IF crouch THEN ticks_since_jump ELSE 0) + 1)
        \* If we make any progress at all, reset this
        NotReached ==
            Steer(crumbs, IF in.moving THEN Clock ELSE inactivity,
                  (IF crouch THEN ticks_since_jump ELSE 0) + 1)
    IN  IF crumbs = <<>>
        THEN State(crumbs, inactivity, last_jump, crouch, ticks_since_jump, {}, NoVec)
        ELSE IF CloseEnough(crumbs[1].vec, v_Origin)
        THEN Reached(Tail(crumbs))
        ELSE NotReached

\* A CreateMove that only skips an entity that is not valid.
SkippedIfBad(in) == in.bad

\* CE_BAD(LOCAL_E) || !LOCAL_E->m_bAlivePlayer()
Skipped(in) == in.bad \/ ~in.alive

\* void CreateMove()
CreateMove(in) ==
    IF ~isReady \/ Skipped(in)
    THEN /\ out' = [Out("CreateMove", FALSE) EXCEPT !.in = in]
         /\ UNCHANGED <<engineVars, followVars, map, despam, lastEval>>
    ELSE \E r \in {FollowCrumbs(in)} :
             /\ r.ticks_since_jump <= MaxJumpTicks
             /\ crumbs' = r.crumbs
             /\ inactivity' = r.inactivity
             /\ last_jump' = r.last_jump
             /\ crouch' = r.crouch
             /\ ticks_since_jump' = r.ticks_since_jump
             /\ out' = [Out("CreateMove", TRUE) EXCEPT !.buttons = r.buttons, !.walk = r.walk,
                                                        !.in = in, !.popped = r.crumbs # crumbs]
             /\ UNCHANGED <<engineVars, map, despam, lastEval>>

\* getcwd failed
NoCwd == <<>>

\* The branch void LevelInit() takes for the map m, the level name and the
\* result of getcwd: "nodot" and "nocwd" for its two early returns, "load"
\* for make_unique<Map>(nav_path), "reset" for map->Reset().
LevelInitBranch(m, name, cwd) ==
    IF ~m.loaded \/ m.mapname # name
    THEN IF StrRChr(Truncate(name, LvlNameMax), ".") = 0
         THEN "nodot"
         ELSE IF cwd = NoCwd
         THEN "nocwd"
         ELSE "load"
    ELSE "reset"

\* A LevelInit that drops the map when it cannot build the path of the nav
\* file.
LevelInitMapOrNone(m, name, cwd) ==
    LET Load(lvl_name, p) ==
            IF p = 0
            THEN NoMap
            ELSE IF cwd = NoCwd
            THEN NoMap
            ELSE NewMap(NavPath(cwd, SubSeq(lvl_name, 1, p - 1)))
    IN  IF ~m.loaded \/ m.mapname # name
        THEN Load(Truncate(name, LvlNameMax), StrRChr(Truncate(name, LvlNameMax), "."))
        ELSE [m EXCEPT !.vischeck_cache = MapReset(m).cache, !.pather = MapReset(m).pather]

\* void LevelInit() for the map m, the level name and the result of getcwd:
\* the map afterwards.
LevelInitMap(m, name, cwd) ==
    LET Load(lvl_name, p) ==
            IF p = 0
            THEN m
            ELSE IF cwd = NoCwd
            THEN m
            ELSE NewMap(NavPath(cwd, SubSeq(lvl_name, 1, p - 1)))
    IN  IF ~m.loaded \/ m.mapname # name
        THEN Load(Truncate(name, LvlNameMax), StrRChr(Truncate(name, LvlNameMax), "."))
        ELSE [m EXCEPT !.vischeck_cache = MapReset(m).cache, !.pather = MapReset(m).pather]

\* lastEval after LevelInit took the branch: a map just built or just reset
\* has evaluated nothing, an early return leaves what was evaluated.
EvalsAfter(branch) == IF branch \in {"load", "reset"} THEN EmptyFn ELSE lastEval

\* EC::LevelInit: the engine enters the level name and runs LevelInit.
LevelInit(name, cwd) ==
    \E n \in {LevelInitMap(map, name, cwd)} :
        /\ level_name' = name
        /\ map' = n
        /\ lastEval' = EvalsAfter(LevelInitBranch(map, name, cwd))
        /\ out' = [Out("LevelInit", FALSE) EXCEPT !.branch = LevelInitBranch(map, name, cwd)]
        /\ UNCHANGED <<enabled, tickcount, v_Origin, world, loc, followVars, despam>>

\* CatCommand nav_init: map.reset(), then LevelInit.
nav_init(cwd) ==
    \E n \in {LevelInitMap(NoMap, level_name, cwd)} :
        /\ map' = n
        /\ lastEval' = EmptyFn
        /\ out' = [Out("nav_init", FALSE) EXCEPT !.branch = LevelInitBranch(NoMap, level_name, cwd)]
        /\ UNCHANGED <<engineVars, followVars, despam>>

\* The change callback of nav.enabled: LevelInit when switched on in game.
SetEnabled(after, ingame, cwd) ==
    \E n \in {IF after /\ ingame THEN LevelInitMap(map, level_name, cwd) ELSE map} :
        /\ enabled' = after
        /\ map' = n
        /\ lastEval' = IF after /\ ingame
                       THEN EvalsAfter(LevelInitBranch(map, level_name, cwd))
                       ELSE lastEval
        /\ out' = [Out("SetEnabled", FALSE) EXCEPT
                      !.branch = IF after /\ ingame
                                 THEN LevelInitBranch(map, level_name, cwd)
                                 ELSE ""]
        /\ UNCHANGED <<level_name, tickcount, v_Origin, world, loc, followVars, despam>>

\* CatCommand nav_set
nav_set ==
    /\ loc' = v_Origin
    /\ out' = Out("nav_set", FALSE)
    /\ UNCHANGED <<level_name, enabled, tickcount, v_Origin, world, followVars, map, despam, lastEval>>

\* CatCommand nav_path
nav_path == navTo(loc, TRUE)

\* ------------------------------------------------ class Map, called directly
\* Map::AdjacentCost(main, adjacent), called by the oracle.
DoAdjacentCost(main) ==
    /\ map.loaded
    /\ main \in AreaIds(map.navfile.m_areas)
    /\ \E r \in {AdjacentCost(map.navfile.m_areas, world, tickcount, map.vischeck_cache, main)} :
          /\ map' = [map EXCEPT !.vischeck_cache = r.cache]
          /\ lastEval' = Record(lastEval, r.evals)
          /\ out' = [Out("AdjacentCost", r.adjacent # <<>>) EXCEPT !.evals = r.evals]
    /\ UNCHANGED <<engineVars, followVars, despam>>

\* Map::findPath(local, dest); on a map without areas the arguments are null.
DoFindPath(local, dest) ==
    /\ map.loaded
    /\ \E r \in {findPath(map, world, tickcount, local, dest)} :
          /\ map' = [map EXCEPT !.vischeck_cache = r.io.cache, !.pather = r.io.pather]
          /\ lastEval' = Record(lastEval, r.io.evals)
          /\ out' = [Out("findPath", r.path # <<>>) EXCEPT !.path = r.path, !.evals = r.io.evals,
                                                            !.result = r.result]
    /\ UNCHANGED <<engineVars, followVars, despam>>

\* navPoints determinePoints(CNavArea *current, CNavArea *next)
DoDeterminePoints(current, next) ==
    /\ out' = [Out("determinePoints", FALSE) EXCEPT
                  !.args = <<current, next>>,
                  !.points = determinePoints(current, next)]
    /\ UNCHANGED <<engineVars, followVars, map, despam, lastEval>>

\* Map::findClosestNavSquare(vec)
DoFindClosest(vec) ==
    /\ map.loaded
    /\ out' = [Out("findClosestNavSquare", FALSE) EXCEPT
                  !.dest = vec,
                  !.area = findClosestNavSquare(map.navfile.m_areas, world, vec)]
    /\ UNCHANGED <<engineVars, followVars, map, despam, lastEval>>

\* void Map::updateIgnores()
updateIgnores ==
    /\ map.loaded
    /\ IF ~TimerCheck(despam, DespamMs)
       THEN /\ out' = Out("updateIgnores", FALSE)
            /\ UNCHANGED <<map, despam, lastEval>>
       ELSE \E r \in {SweepIgnores(map, tickcount)} :
            /\ despam' = Clock
            /\ map' = [map EXCEPT !.vischeck_cache = r.cache, !.pather = r.pather]
            /\ lastEval' = EmptyFn
            /\ out' = [Out("updateIgnores", TRUE) EXCEPT
                          !.erased = DOMAIN map.vischeck_cache \ DOMAIN r.cache,
                          !.reset = r.erased]
    /\ UNCHANGED <<engineVars, followVars>>

\* void Map::Reset()
Reset ==
    /\ map.loaded
    /\ map' = [map EXCEPT !.vischeck_cache = MapReset(map).cache, !.pather = MapReset(map).pather]
    /\ lastEval' = EmptyFn
    /\ out' = [Out("Reset", FALSE) EXCEPT
                  !.erased = DOMAIN map.vischeck_cache \ DOMAIN MapReset(map).cache,
                  !.reset = TRUE]
    /\ UNCHANGED <<engineVars, followVars, despam>>

\* ------------------------------------------------------------- environment
\* The engine counts d ticks.
AdvanceTick(d) ==
    /\ tickcount + d <= MaxTick
    /\ tickcount' = tickcount + d
    /\ out' = Out("AdvanceTick", FALSE)
    /\ UNCHANGED <<level_name, enabled, v_Origin, world, loc, followVars, map, despam, lastEval>>

\* The local player is at p.
PlayerMoves(p) ==
    /\ v_Origin' = p
    /\ out' = Out("PlayerMoves", FALSE)
    /\ UNCHANGED <<level_name, enabled, tickcount, world, loc, followVars, map, despam, lastEval>>

\* A door opens or closes: the solid geometry becomes w.
WorldChanges(w) ==
    /\ world' = [w EXCEPT !.apart = world.apart]
    /\ out' = Out("WorldChanges", FALSE)
    /\ UNCHANGED <<level_name, enabled, tickcount, v_Origin, loc, followVars, map, despam, lastEval>>

\* ------------------------------------------------------------------ inputs
\* The rays of the two visibility checks of the connection a -> b of mesh.
RaysOf(mesh, a, b) ==
    LET Rays(rp) ==
            {<<rp.current, rp.center, "left">>, <<rp.current, rp.center, "right">>,
             <<rp.center, rp.next, "left">>, <<rp.center, rp.next, "right">>}
        Both(points) ==
            Rays(RayPoints(mesh, a, b, {}))
                \cup Rays(RayPoints(mesh, a, b, {<<points.current, points.center>>,
                                                  <<points.center, points.next>>}))
    IN  Both(determinePoints(mesh[a], mesh[b]))

\* Nothing in the way.
WorldOpen == [walls |-> {}, fog |-> {}, apart |-> {}]
\* A wall between the areas 1 and 2, blocking every ray both ways.
WorldWall ==
    [walls |-> RaysOf(MeshTwo, 1, 2) \cup RaysOf(MeshTwo, 2, 1), fog |-> {}, apart |-> {}]
\* A pillar that only the right ray of the second check from 1 to 2 hits.
WorldPillar ==
    [walls |-> {<<RayPoints(MeshTwo, 1, 2, {}).center,
                  RayPoints(MeshTwo, 1, 2, {}).next, "right">>},
     fog |-> {}, apart |-> {}]
Worlds == {WorldOpen, WorldWall, WorldPillar}

\* The levels the engine enters in the program specification.
Levels == {Lvl_t, Lvl_x, Lvl_n}
CwdResults == {Cwd, NoCwd}

\* Where the player stands and where routes are asked to in the program
\* specification: the centre of area 1, the centre of area 2, and a point
\* of area 2 off its centre.
Positions == {<<0, 0, 0>>, <<200, 0, 0>>}
Destinations == {<<0, 0, 0>>, <<240, 60, 0>>}

\* The ticks of the program specification: a dead entity, and a live one
\* standing on the ground.
TickInputs ==
    {TickInput(FALSE, FALSE, FALSE, FALSE, FALSE, TRUE),
     TickInput(FALSE, TRUE, FALSE, FALSE, FALSE, TRUE)}

\* The nodes findPath is called with: the areas of the map, or null.
MapNodes ==
    IF ~map.loaded \/ map.navfile.m_areas = <<>> THEN {NullArea} ELSE AreaIds(map.navfile.m_areas)

\* The engine is followed in steps long enough for a cache entry to expire.
CoarseSteps == {CacheTicks + 1}

\* ----------------------------------------------------------- specification
\* The state once the module is loaded, before any level.
Init ==
    /\ level_name = Lvl_n
    /\ enabled = FALSE
    /\ map = NoMap
    /\ crumbs = <<>>
    /\ inactivity = 0
    /\ last_jump = 0
    /\ despam = 0
    /\ crouch = FALSE
    /\ ticks_since_jump = 0
    /\ tickcount = 0
    /\ v_Origin = <<0, 0, 0>>
    /\ world \in {WorldOpen, WorldWall}
    /\ loc = <<0, 0, 0>>
    /\ out = Out("init", FALSE)
    /\ lastEval = EmptyFn

\* The handlers the module registers, its reload command and its setting,
\* the calls of navTo by other modules, and the engine around them.
Next ==
    \/ \E name \in Levels, cwd \in CwdResults : LevelInit(name, cwd)
    \/ \E cwd \in CwdResults : nav_init(cwd)
    \/ \E after \in BOOLEAN, ingame \in BOOLEAN, cwd \in CwdResults : SetEnabled(after, ingame, cwd)
    \/ nav_set
    \/ nav_path
    \/ \E destination \in Destinations, nav_to_local \in BOOLEAN : navTo(destination, nav_to_local)
    \/ \E in \in TickInputs : CreateMove(in)
    \/ \E local \in MapNodes, dest \in MapNodes : DoFindPath(local, dest)
    \/ \E d \in CoarseSteps : AdvanceTick(d)
    \/ \E p \in Positions : PlayerMoves(p)

Spec == Init /\ [][Next]_vars

\* ------------------------------------------------- route planning alone
\* A level is loaded and navigation enabled; routes are planned from and to
\* the areas of the two-area mesh and of the four-area row, by navTo and by
\* the nav_path command (to loc, the origin), while the player is moved and
\* doors open and close.
PlanLevels == {Lvl_t, Lvl_l, Lvl_e}
PlanPositions == {<<0, 0, 0>>, <<200, 0, 0>>, <<600, 0, -200>>}
PlanDestinations == {<<0, 0, 0>>, <<240, 60, 0>>, <<400, 0, 0>>, <<600, 0, -200>>}

\* The map LevelInit loads for the level name.
Loaded(name) == LevelInitMap(NoMap, name, Cwd)

InitPlan ==
    /\ level_name \in PlanLevels
    /\ enabled = TRUE
    /\ map = Loaded(level_name)
    /\ crumbs = <<>>
    /\ inactivity = 0
    /\ last_jump = 0
    /\ despam = 0
    /\ crouch = FALSE
    /\ ticks_since_jump = 0
    /\ tickcount = 0
    /\ v_Origin \in PlanPositions
    /\ world \in Worlds
    /\ loc = <<0, 0, 0>>
    /\ out = Out("init", FALSE)
    /\ lastEval = EmptyFn

NextPlan ==
    \/ \E destination \in PlanDestinations, nav_to_local \in BOOLEAN : navTo(destination, nav_to_local)
    \/ nav_path
    \/ \E p \in PlanPositions : PlayerMoves(p)
    \/ \E w \in Worlds : WorldChanges(w)

SpecPlan == InitPlan /\ [][NextPlan]_vars

\* ------------------------------------------------------ class Map alone
\* The operations of class Map, called in any order on a map just loaded
\* from a file that parses (the two-area mesh) or does not, in an open or
\* a walled world, while ticks pass.  The search oracle is free to ask for
\* the neighbours of any node at any time.
MapLevels == {Lvl_t, Lvl_x}
FineSteps == {1}

InitMap ==
    /\ level_name \in MapLevels
    /\ enabled = TRUE
    /\ map = Loaded(level_name)
    /\ crumbs = <<>>
    /\ inactivity = 0
    /\ last_jump = 0
    /\ despam = 0
    /\ crouch = FALSE
    /\ ticks_since_jump = 0
    /\ tickcount = 0
    /\ v_Origin = <<0, 0, 0>>
    /\ world \in Worlds
    /\ loc = <<0, 0, 0>>
    /\ out = Out("init", FALSE)
    /\ lastEval = EmptyFn

NextMap ==
    \/ \E main \in AreaIds(MeshTwo) : DoAdjacentCost(main)
    \/ \E local \in MapNodes, dest \in MapNodes : DoFindPath(local, dest)
    \/ updateIgnores
    \/ Reset
    \/ \E d \in FineSteps : AdvanceTick(d)

SpecMap == InitMap /\ [][NextMap]_vars

\* ------------------------------------------------- following a route alone
\* The four-area row is loaded in an open world and navigation is enabled;
\* routes are planned and followed tick by tick by a player who stands at
\* the centre of A, in a dip of the no-jump area C, or at the centre of the
\* lower area D, moving or not, aiming or not, on the ground or not.
FollowPositions == {<<0, 0, 0>>, <<400, 0, -80>>, <<600, 0, -200>>}
FollowDestinations == {<<0, 0, 0>>, <<600, 0, -200>>}
FollowInputs ==
    {TickInput(FALSE, FALSE, FALSE, FALSE, FALSE, TRUE)}
    \cup {TickInput(FALSE, TRUE, moving, aim = "zoomed", aim = "revved", onground) :
              moving \in BOOLEAN, aim \in {"none", "zoomed", "revved"}, onground \in BOOLEAN}

InitFollow ==
    /\ level_name = Lvl_l
    /\ enabled = TRUE
    /\ map = Loaded(level_name)
    /\ crumbs = <<>>
    /\ inactivity = 0
    /\ last_jump = 0
    /\ despam = 0
    /\ crouch = FALSE
    /\ ticks_since_jump = 0
    /\ tickcount = 0
    /\ v_Origin \in FollowPositions
    /\ world = WorldOpen
    /\ loc = <<0, 0, 0>>
    /\ out = Out("init", FALSE)
    /\ lastEval = EmptyFn

NextFollow ==
    \/ \E destination \in FollowDestinations : navTo(destination, FALSE)
    \/ \E in \in FollowInputs : CreateMove(in)
    \/ \E d \in CoarseSteps : AdvanceTick(d)
    \/ \E p \in FollowPositions : PlayerMoves(p)

SpecFollow == InitFollow /\ [][NextFollow]_vars

\* ------------------------------------------------- walking a route alone
\* As above, but the player walks: he comes to stand near the way points
\* of the row, one after the other, on the ground and not aiming, so that
\* the routes planned, whole or without their first area, are followed to
\* their end.  Ticks also come for an entity that is not valid or not alive.
WalkPositions ==
    {<<50, 0, 0>>, <<250, 0, 0>>, <<400, 0, -80>>, <<560, 0, 0>>, <<550, 0, -200>>}
WalkInputs ==
    {TickInput(TRUE, TRUE, FALSE, FALSE, FALSE, TRUE),
     TickInput(FALSE, FALSE, FALSE, FALSE, FALSE, TRUE),
     TickInput(FALSE, TRUE, FALSE, FALSE, FALSE, TRUE),
     TickInput(FALSE, TRUE, TRUE, FALSE, FALSE, TRUE)}

NextWalk ==
    \/ \E destination \in FollowDestinations, nav_to_local \in BOOLEAN :
          navTo(destination, nav_to_local)
    \/ \E in \in WalkInputs : CreateMove(in)
    \/ \E d \in CoarseSteps : AdvanceTick(d)
    \/ \E p \in WalkPositions : PlayerMoves(p)

SpecWalk == InitFollow /\ [][NextWalk]_vars

\* The same within one tick of the clock, with an agent who gets where he
\* is sent: as long as crumbs are left he comes again within the arrival
\* radius of the head crumb, and the engine, which calls CreateMove on
\* every tick, then runs a tick for him, alive and valid, while he is
\* still there.
NextArrive ==
    \/ \E destination \in FollowDestinations, nav_to_local \in BOOLEAN :
          navTo(destination, nav_to_local)
    \/ \E in \in WalkInputs : CreateMove(in)
    \/ \E p \in WalkPositions : PlayerMoves(p)

SpecArrive ==
    /\ InitFollow
    /\ [][NextArrive]_vars
    /\ WF_vars(/\ crumbs # <<>>
               /\ \E p \in WalkPositions : CloseEnough(crumbs[1].vec, p) /\ PlayerMoves(p))
    /\ SF_vars(/\ crumbs # <<>>
               /\ CloseEnough(crumbs[1].vec, v_Origin)
               /\ \E in \in WalkInputs : ~Skipped(in) /\ CreateMove(in))

\* The way up the step of the row, within one tick of the clock, for an
\* agent who is always on the ground and stands below the step or on the
\* area C above it, where jumping is not allowed.  Wherever he is again and
\* again while crumbs are left, the engine, which calls CreateMove on every
\* tick, runs a tick of the controller for him there, alive and valid.
NextLand ==
    \/ navTo(<<0, 0, 0>>, FALSE)
    \/ \E in \in WalkInputs : CreateMove(in)
    \/ \E p \in {<<550, 0, -200>>, <<400, 0, -80>>} : PlayerMoves(p)

SpecLand ==
    /\ InitFollow
    /\ [][NextLand]_vars
    /\ \A p \in FollowPositions \cup {<<550, 0, -200>>} :
          SF_vars(/\ crumbs # <<>>
                  /\ v_Origin = p
                  /\ \E in \in WalkInputs : in.onground /\ ~Skipped(in) /\ CreateMove(in))

\* ------------------------------------------------- the closest area alone
\* A mesh is loaded (the stacked areas, the four-area row, or no area at
\* all) and the closest area is asked for points on, between, above and
\* beside the areas, while the sight from those points to some of the area
\* centres comes and goes.
FindLevels == {Lvl_s, Lvl_l, Lvl_e}
FindPoints ==
    {<<0, 0, 0>>, <<50, 0, 300>>, <<100, 0, 0>>, <<100, 0, 500>>, <<500, 0, 0>>, <<900, 0, 0>>}

\* No sight from any of the points to the centres of the areas hidden.
FogOf(mesh, hidden) ==
    [walls |-> {},
     fog |-> {<<RaiseZ(p, PLAYER_JUMP_HEIGHT), RaiseZ(mesh[a].m_center, PLAYER_JUMP_HEIGHT)>> :
                  p \in FindPoints, a \in hidden \cap AreaIds(mesh)},
     apart |-> {}]

FindWorlds ==
    {WorldOpen, FogOf(MeshStack, {1}), FogOf(MeshStack, {2}), FogOf(MeshStack, {1, 2, 3}),
     FogOf(MeshLine, {3})}

InitFind ==
    /\ level_name \in FindLevels
    /\ enabled = TRUE
    /\ map = Loaded(level_name)
    /\ crumbs = <<>>
    /\ inactivity = 0
    /\ last_jump = 0
    /\ despam = 0
    /\ crouch = FALSE
    /\ ticks_since_jump = 0
    /\ tickcount = 0
    /\ v_Origin = <<0, 0, 0>>
    /\ world \in FindWorlds
    /\ loc = <<0, 0, 0>>
    /\ out = Out("init", FALSE)
    /\ lastEval = EmptyFn

NextFind ==
    \/ \E vec \in FindPoints : DoFindClosest(vec)
    \/ \E w \in FindWorlds : WorldChanges(w)
    \/ \E destination \in FindPoints : navTo(destination, TRUE)
    \/ \E p \in FindPoints : PlayerMoves(p)

SpecFind == InitFind /\ [][NextFind]_vars

\* ------------------------------------------------------ the edges alone
\* A mesh with a change of height is loaded (the two areas on a diagonal,
\* or the four-area row) and the search oracle asks for the neighbours of
\* any area, again and again, while walls between the areas come and go
\* and the map is reset.
EdgeLevels == {Lvl_d, Lvl_l, Lvl_k}
\* A wall between the two areas on the diagonal, blocking every ray.
WorldDiagWall ==
    [walls |-> RaysOf(MeshDiag, 1, 2) \cup RaysOf(MeshDiag, 2, 1), fog |-> {}, apart |-> {}]
\* A wall along the step between the areas C and D of the row.
WorldStepWall ==
    [walls |-> RaysOf(MeshLine, 3, 4) \cup RaysOf(MeshLine, 4, 3), fog |-> {}, apart |-> {}]
EdgeWorlds == {WorldOpen, WorldDiagWall, WorldStepWall}

InitEdge ==
    /\ level_name \in EdgeLevels
    /\ enabled = TRUE
    /\ map = Loaded(level_name)
    /\ crumbs = <<>>
    /\ inactivity = 0
    /\ last_jump = 0
    /\ despam = 0
    /\ crouch = FALSE
    /\ ticks_since_jump = 0
    /\ tickcount = 0
    /\ v_Origin = <<0, 0, 0>>
    /\ world \in {[w EXCEPT !.apart = apart] :
                     w \in EdgeWorlds,
                     apart \in SUBSET {<<<<-100, 0, 0>>, <<-200, 0, -200>>>>,
                                       <<<<-200, 100, -200>>, <<-200, 200, -400>>>>}}
    /\ loc = <<0, 0, 0>>
    /\ out = Out("init", FALSE)
    /\ lastEval = EmptyFn

NextEdge ==
    \/ \E main \in AreaIds(map.navfile.m_areas) : DoAdjacentCost(main)
    \/ \E w \in EdgeWorlds : WorldChanges(w)
    \/ Reset
    \/ \E d \in CoarseSteps : AdvanceTick(d)

SpecEdge == InitEdge /\ [][NextEdge]_vars

\* ------------------------------------------------- the way points alone
\* determinePoints is called for any two areas out of a dozen: small,
\* large and oblong ones, beside, above and diagonally across each other.
PointAreas ==
    {Area(1, c, h[1], h[2], <<>>, 0) :
         c \in {<<0, 0, 0>>, <<200, 0, 0>>, <<300, 300, 200>>, <<-300, 250, 0>>},
         h \in {<<100, 100>>, <<350, 350>>, <<50, 200>>}}

InitPoints ==
    /\ level_name = Lvl_d
    /\ enabled = TRUE
    /\ map = Loaded(level_name)
    /\ crumbs = <<>>
    /\ inactivity = 0
    /\ last_jump = 0
    /\ despam = 0
    /\ crouch = FALSE
    /\ ticks_since_jump = 0
    /\ tickcount = 0
    /\ v_Origin = <<0, 0, 0>>
    /\ world = WorldOpen
    /\ loc = <<0, 0, 0>>
    /\ out = Out("init", FALSE)
    /\ lastEval = EmptyFn

NextPoints == \E current \in PointAreas, next \in PointAreas : DoDeterminePoints(current, next)

SpecPoints == InitPoints /\ [][NextPoints]_vars

\* ------------------------------------------------------------------ claims
\* C1: when navTo succeeds on a route A1..An kept whole, the crumb queue
\* is, in order: for every area Ai with i < n two crumbs tagged Ai, the
\* dropdown-corrected entry waypoint and then the dropdown-corrected mid
\* waypoint toward Ai+1; then one crumb tagged An at An's centre; then one
\* crumb with no area at the raw destination.
C1_CrumbOrder ==
    (out.op = "navTo" /\ out.ret /\ out.local) =>
        LET mesh == map.navfile.m_areas
            n == Len(out.path)
        IN  /\ n >= 1
            /\ Len(crumbs) = 2 * n
            /\ \A i \in 1..(n - 1) :
                   LET points == determinePoints(mesh[out.path[i]], mesh[out.path[i + 1]])
                   IN  /\ crumbs[2 * i - 1] =
                              [navarea |-> out.path[i],
                               vec |-> handleDropdown(points.current, points.center, world.apart)]
                       /\ crumbs[2 * i] =
                              [navarea |-> out.path[i],
                               vec |-> handleDropdown(points.center, points.next, world.apart)]
            /\ crumbs[2 * n - 1] = [navarea |-> out.path[n], vec |-> mesh[out.path[n]].m_center]
            /\ crumbs[2 * n] = [navarea |-> NullArea, vec |-> out.dest]

\* navTo succeeded on a route of four areas kept whole, the last step of
\* which is a dropdown whose mid waypoint was corrected.
C1_Witness ==
    /\ out.op = "navTo" /\ out.ret /\ out.local
    /\ out.path = <<1, 2, 3, 4>>
    /\ Len(crumbs) = 8
    /\ crumbs[6].vec # determinePoints(MeshLine[3], MeshLine[4]).center

\* C2: when a navTo made while the mesh is ready returns, the crumb queue
\* is exactly the complete new route if it returned true and empty if it
\* returned false: no crumb of the earlier route, no partial route.
C2_RouteReplaced ==
    (out.op = "navTo" /\ isReady) =>
        IF out.ret
        THEN crumbs = Append(ExpandPath(map.navfile.m_areas,
                                        IF out.local THEN out.path ELSE EraseFirst(out.path), 1,
                                        world.apart),
                             [navarea |-> NullArea, vec |-> out.dest])
        ELSE crumbs = <<>>

\* A navTo failed after an earlier one had committed a route (the only
\* thing that sets the inactivity timer): the earlier route is gone.
C2_Witness ==
    /\ out.op = "navTo" /\ isReady /\ ~out.ret
    /\ inactivity # 0
    /\ crumbs = <<>>

\* C3: while no map is loaded or the map is Unavailable, navTo returns
\* false and changes neither the crumb queue nor any timer, findPath
\* returns an empty sequence, and CreateMove issues no input and changes
\* no state.
C3_NoOpWhenUnavailable ==
    [][(~map.loaded \/ map.state = NavState_Unavailable) =>
          /\ out'.op = "navTo" =>
                 /\ ~out'.ret
                 /\ UNCHANGED <<crumbs, inactivity, last_jump, despam>>
          /\ out'.op = "findPath" => out'.path = <<>>
          /\ out'.op = "CreateMove" =>
                 /\ out'.buttons = {} /\ out'.walk = NoVec
                 /\ UNCHANGED <<map, followVars, despam>>]_vars

\* navTo returned on an Unavailable map with navigation enabled while a
\* route of an earlier level was still queued.
C3_Witness ==
    /\ out.op = "navTo" /\ ~out.ret
    /\ enabled /\ map.loaded /\ map.state = NavState_Unavailable
    /\ crumbs # <<>>

\* C4: whenever the search oracle reports no solution, findPath returns
\* an empty sequence and navTo fails with no crumbs committed.
C4_NoSolutionFails ==
    (out.op = "navTo" /\ out.result = <<NO_SOLUTION>>) =>
        /\ out.path = <<>>
        /\ ~out.ret
        /\ crumbs = <<>>

\* A navTo whose search ended without a solution, between two areas.
C4_Witness ==
    /\ out.op = "navTo" /\ out.result = <<NO_SOLUTION>>
    /\ out.evals # <<>>

\* C5: on the two-area mesh, with the visibility cache empty before the
\* call, both visibility segments from A to B blocked and no dropdown, the
\* cost function offers no edge from A to B, and navTo from a point in A
\* to a point in B fails.
C5_WalledEdgeNoRoute ==
    (/\ out.op = "navTo" /\ isReady
     /\ map.navfile.m_areas = MeshTwo
     /\ IsOverlapping(MeshTwo[1], v_Origin) /\ ~IsOverlapping(MeshTwo[2], v_Origin)
     /\ IsOverlapping(MeshTwo[2], out.dest) /\ ~IsOverlapping(MeshTwo[1], out.dest)
     /\ ~IsPlayerPassableNavigation(world, RayPoints(MeshTwo, 1, 2, world.apart).current,
                                    RayPoints(MeshTwo, 1, 2, world.apart).center).ok
     /\ ~IsPlayerPassableNavigation(world, RayPoints(MeshTwo, 1, 2, world.apart).center,
                                    RayPoints(MeshTwo, 1, 2, world.apart).next).ok
     /\ determinePoints(MeshTwo[1], MeshTwo[2]).current[3]
            - determinePoints(MeshTwo[1], MeshTwo[2]).center[3] > -PLAYER_JUMP_HEIGHT
     /\ \A k \in DOMAIN map.vischeck_cache :
            \E i \in DOMAIN out.evals : out.evals[i].key = k /\ out.evals[i].basis = "fresh")
    =>
        /\ \E i \in DOMAIN out.evals : out.evals[i].key = <<1, 2>>
        /\ \A i \in DOMAIN out.evals : out.evals[i].key = <<1, 2>> => ~out.evals[i].accepted
        /\ map.pather[1] = <<>>
        /\ ~out.ret
        /\ crumbs = <<>>

\* navTo returned from A to B on the two-area mesh behind the wall, having
\* evaluated the edge A -> B afresh.
C5_Witness ==
    /\ out.op = "navTo" /\ isReady
    /\ map.navfile.m_areas = MeshTwo
    /\ world = WorldWall
    /\ v_Origin = <<0, 0, 0>> /\ out.dest = <<240, 60, 0>>
    /\ DOMAIN map.vischeck_cache = {<<1, 2>>}
    /\ \E i \in DOMAIN out.evals :
           out.evals[i].key = <<1, 2>> /\ out.evals[i].basis = "fresh" /\ out.evals[i].rays > 0

\* C6: the cost function never decides on a cached visibility entry whose
\* expiry tick has passed (expire_tick < current tick).
C6_NoDecisionOnExpired ==
    \A i \in DOMAIN out.evals :
        out.evals[i].basis = "cache" => ~(out.evals[i].expire_tick < tickcount)

\* C7: on a tick of the callback with the mesh Active, a live player and
\* the second of the sweep's timer elapsed, the sweep runs: no entry whose
\* expiry tick has passed is left in the cache.
C7_SweepOnCadence ==
    [][(/\ out'.op = "CreateMove" /\ out'.ret
        /\ isReady
        /\ TimerCheck(despam, DespamMs))
       => Expired(map'.vischeck_cache, tickcount') = {}]_vars

\* C8: a sweep that is not throttled removes exactly the entries with
\* expire_tick < tick and leaves every other entry as it was; an entry
\* with expire_tick = tick survives.
C8_SweepExact ==
    [][(out'.op = "updateIgnores" /\ out'.ret) =>
          /\ DOMAIN map'.vischeck_cache =
                 {k \in DOMAIN map.vischeck_cache :
                     ~(map.vischeck_cache[k].expire_tick < tickcount)}
          /\ \A k \in DOMAIN map'.vischeck_cache :
                 map'.vischeck_cache[k] = map.vischeck_cache[k]]_vars

\* A sweep erased an entry and left one whose expire_tick is the current
\* tick.
C8_Witness ==
    /\ out.op = "updateIgnores" /\ out.ret
    /\ out.erased # {}
    /\ \E k \in DOMAIN map.vischeck_cache : map.vischeck_cache[k].expire_tick = tickcount

\* C9: a connection evaluated again, with no sweep or reset since its last
\* evaluation and within the expiry window of its entry, gets the same
\* decision, and the evaluation makes no visibility check (casts no ray).
C9_Idempotent ==
    [][out'.op \in {"AdjacentCost", "findPath"} =>
          \A i \in DOMAIN out'.evals :
              (/\ out'.evals[i].key \in DOMAIN lastEval
               /\ out'.evals[i].key \in DOMAIN map.vischeck_cache
               /\ map.vischeck_cache[out'.evals[i].key].expire_tick >= tickcount)
              => /\ out'.evals[i].accepted = lastEval[out'.evals[i].key]
                 /\ out'.evals[i].rays = 0]_vars

\* AdjacentCost evaluated, from the cache and within its window, a
\* connection that the wall blocks, and rejected it again.
C9_Witness ==
    /\ out.op = "AdjacentCost"
    /\ world = WorldWall
    /\ \E i \in DOMAIN out.evals :
           /\ out.evals[i].basis = "cache"
           /\ ~out.evals[i].accepted
           /\ out.evals[i].expire_tick >= tickcount
           /\ out.evals[i].rays = 0

\* C10: Map::Reset leaves the visibility cache empty and the search
\* oracle reset, whatever the cache held and whether or not an entry had
\* expired.
C10_ResetClearsAll ==
    out.op = "Reset" =>
        /\ map.vischeck_cache = EmptyFn
        /\ map.pather = PatherReset
        /\ out.reset

\* A reset at the tick of loading, when no entry can have expired, that
\* erased entries.
C10_Witness ==
    /\ out.op = "Reset"
    /\ tickcount = 0
    /\ out.erased # {}
    /\ map.vischeck_cache = EmptyFn

\* C11: when LevelInit runs while a map is loaded for the same, unchanged
\* level name, it constructs no new map and resets the cache and the
\* search state of the map it has.
C11_SameLevelResets ==
    [][(/\ out'.op = "LevelInit"
        /\ level_name' = level_name
        /\ map.loaded
        /\ map.mapname = NavPath(Cwd, SubSeq(level_name, 1, StrRChr(level_name, ".") - 1)))
       => out'.branch = "reset"]_vars

\* C12: whenever LevelInit replaces the loaded map, the crumb queue is
\* empty immediately afterwards.
C12_ReloadDiscardsRoute ==
    [][(out'.op = "LevelInit" /\ map.loaded /\ out'.branch = "load") => crumbs' = <<>>]_vars

\* C13: each time navTo commits a route and each time the mesh is
\* reloaded, the movement timers are reset: the inactivity and last-jump
\* timestamps (to now or to the epoch), the crouch flag (cleared) and the
\* ticks-since-jump counter (zero).
C13_TimersReset ==
    [][(\/ out'.op = "navTo" /\ out'.ret
        \/ out'.op = "LevelInit" /\ out'.branch = "load")
       => /\ inactivity' \in {0, Clock}
          /\ last_jump' \in {0, Clock}
          /\ crouch' = FALSE
          /\ ticks_since_jump' = 0]_vars

\* C14: on a tick on which the agent's current area, as
\* findClosestNavSquare returns it, has the no-jump attribute, FollowCrumbs
\* emits no jump input, whatever the height of the head crumb and however
\* long the agent has been stuck.
C14_NoJumpArea ==
    (/\ out.op = "CreateMove" /\ out.ret
     /\ findClosestNavSquare(map.navfile.m_areas, world, v_Origin) # NullArea
     /\ BitAnd(map.navfile.m_areas[findClosestNavSquare(map.navfile.m_areas, world, v_Origin)]
                    .m_attributeFlags,
                NAV_MESH_NO_JUMP) # 0)
    => IN_JUMP \notin out.buttons

\* A tick in the no-jump area with the head crumb more than 18 units above
\* the agent, the agent neither aiming nor crouching and the jump interval
\* elapsed: nothing was pressed.
C14_Witness ==
    /\ out.op = "CreateMove" /\ out.ret
    /\ findClosestNavSquare(map.navfile.m_areas, world, v_Origin) = 3
    /\ BitAnd(map.navfile.m_areas[3].m_attributeFlags, NAV_MESH_NO_JUMP) # 0
    /\ ~out.in.zoomed /\ ~out.in.revved /\ ~crouch
    /\ crumbs # <<>>
    /\ crumbs[1].vec[3] - v_Origin[3] > JumpStep
    /\ TimerCheck(last_jump, JumpIntervalMs)
    /\ TimerCheck(inactivity, stuck_time \div 2)
    /\ out.buttons = {}

\* C15: on a tick on which the agent is aiming (zoomed with a sniper
\* rifle, or revved or revving), FollowCrumbs emits no jump input, whether
\* the head crumb is above the agent or the agent has been stuck for half
\* the stuck timeout.
C15_NoJumpWhileAiming ==
    [][(out'.op = "CreateMove" /\ (out'.in.zoomed \/ out'.in.revved))
       => IN_JUMP \notin out'.buttons]_vars

\* C16: the jump input is emitted on the tick the jump is triggered only;
\* on the following ticks (still following, in an area that permits
\* jumping, not aiming) the crouch input is emitted; the crouch flag
\* clears only on a tick on the ground after the crouch input was emitted
\* on at least 4 ticks, and the last-jump timestamp is then updated.
C16_JumpThenCrouch ==
    [][out'.op = "CreateMove" =>
          /\ IN_JUMP \in out'.buttons => ~crouch /\ crouch' /\ ticks_since_jump' = 1
          /\ (/\ crouch /\ out'.ret /\ out'.walk # NoVec
              /\ ~out'.in.zoomed /\ ~out'.in.revved
              /\ AreaAllowsJump(map.navfile.m_areas,
                                findClosestNavSquare(map.navfile.m_areas, world, v_Origin)))
             => out'.buttons = {IN_DUCK} /\ ticks_since_jump' = ticks_since_jump + 1
          /\ (crouch /\ ~crouch')
             => /\ out'.in.onground
                /\ out'.buttons = {IN_DUCK}
                /\ ticks_since_jump' - 1 >= 4
                /\ last_jump' = Clock]_vars

\* C17: for every point and mesh, findClosestNavSquare returns an area of
\* smallest centre distance among the areas that overlap the point's 2-D
\* projection and are visible from the point, when there is such an area;
\* when there is none, it returns an area of smallest centre distance among
\* all areas.
C17_ClosestQualifying ==
    out.op = "findClosestNavSquare" =>
        LET mesh == map.navfile.m_areas
            D(i) == LengthSqr(VecSub(mesh[i].m_center, out.dest))
            Q == {i \in AreaIds(mesh) :
                     /\ IsOverlapping(mesh[i], out.dest)
                     /\ IsVectorVisibleNavigation(world, RaiseZ(out.dest, PLAYER_JUMP_HEIGHT),
                                                  RaiseZ(mesh[i].m_center, PLAYER_JUMP_HEIGHT))}
            Among(S) == out.area \in S /\ \A j \in S : D(out.area) <= D(j)
        IN  IF Q # {} THEN Among(Q)
            ELSE IF mesh # <<>> THEN Among(AreaIds(mesh))
            ELSE out.area = NullArea

\* The point stands on two areas and the nearer one, the nearest of all, is
\* out of sight: the farther one is returned.
C17_Witness ==
    /\ out.op = "findClosestNavSquare"
    /\ level_name = Lvl_s
    /\ out.dest = <<50, 0, 300>>
    /\ world = FogOf(MeshStack, {2})
    /\ out.area = 1

\* The entry and mid waypoints of the connection an evaluation is about.
EdgePoints(e) == determinePoints(map.navfile.m_areas[e.key[1]], map.navfile.m_areas[e.key[2]])

\* C18: AdjacentCost never offers an edge whose mid waypoint lies more than
\* the jump height above the entry waypoint of the current area, whatever
\* the visibility cache holds.
C18_TooHighExcluded ==
    out.op = "AdjacentCost" =>
        \A i \in DOMAIN out.evals :
            EdgePoints(out.evals[i]).center[3] - EdgePoints(out.evals[i]).current[3]
                    > PLAYER_JUMP_HEIGHT
                => ~out.evals[i].accepted

\* C19: an edge whose mid waypoint lies more than the jump height below its
\* entry waypoint is offered, whether the pair is cached as not visible or
\* the fresh visibility checks are blocked.
C19_DropdownOffered ==
    out.op = "AdjacentCost" =>
        \A i \in DOMAIN out.evals :
            EdgePoints(out.evals[i]).current[3] - EdgePoints(out.evals[i]).center[3]
                    > PLAYER_JUMP_HEIGHT
                => out.evals[i].accepted

\* C20: every cost AdjacentCost offers for a connection A -> B is at least
\* zero and at least LeastCostEstimate(A, B), the distance between the
\* centres of A and B, on a cache hit as on fresh visibility checks.
C20_CostAtLeastEstimate ==
    out.op = "AdjacentCost" =>
        \A i \in DOMAIN out.evals :
            \A j \in DOMAIN out.evals[i].offer :
                /\ out.evals[i].offer[j].state = out.evals[i].key[2]
                /\ out.evals[i].offer[j].cost >= 0
                /\ out.evals[i].offer[j].cost >=
                       LeastCostEstimate(map.navfile.m_areas, out.evals[i].key[1],
                                         out.evals[i].key[2])

\* The neighbours of the area C of the row were asked for a second time:
\* the level edge to B and the edge down the step to D are both offered
\* from the cache, at a cost above zero.
C20_Witness ==
    /\ out.op = "AdjacentCost"
    /\ level_name = Lvl_l
    /\ Len(out.evals) = 2
    /\ \A i \in DOMAIN out.evals :
          /\ out.evals[i].key[1] = 3
          /\ out.evals[i].basis = "cache"
          /\ Len(out.evals[i].offer) = 1
          /\ out.evals[i].offer[1].cost > 0

\* C21: determinePoints(A, B) returns A's centre as entry and B's centre as
\* exit; its mid point is aligned with a centre (has the x or the y of A's
\* or B's centre) whenever one of the two candidates (the point of A nearest
\* to B's centre, the point of B nearest to A's centre) is, and is B's
\* candidate when neither is.
C21_MidPointRule ==
    out.op = "determinePoints" =>
        LET ofA == getNearestPoint(out.args[1], AsVector2D(out.args[2].m_center))
            ofB == getNearestPoint(out.args[2], AsVector2D(out.args[1].m_center))
            AlignedPoint(v) ==
                \E i \in {1, 2} :
                    v[1] = out.args[i].m_center[1] \/ v[2] = out.args[i].m_center[2]
        IN  /\ out.points.current = out.args[1].m_center
            /\ out.points.next = out.args[2].m_center
            /\ (AlignedPoint(ofA) \/ AlignedPoint(ofB)) => AlignedPoint(out.points.center)
            /\ (~AlignedPoint(ofA) /\ ~AlignedPoint(ofB)) => out.points.center = ofB

\* Two areas diagonally across, neither candidate aligned: the mid point is
\* the corner of the second area, not that of the first.
C21_Witness ==
    /\ out.op = "determinePoints"
    /\ out.args[1] = Area(1, <<0, 0, 0>>, 100, 100, <<>>, 0)
    /\ out.args[2] = Area(1, <<300, 300, 200>>, 100, 100, <<>>, 0)
    /\ out.points.center = <<200, 200, 200>>

\* C22: when navTo commits a route of four areas kept whole (nav_to_local
\* true, as nav_path calls it), the crumb queue holds exactly 6 crumbs.
C22_FourAreasSixCrumbs ==
    (out.op = "navTo" /\ out.ret /\ out.local /\ Len(out.path) = 4) => Len(crumbs) = 6

\* C23: on a tick of FollowCrumbs with the agent within the arrival radius
\* of the head crumb, exactly one crumb is popped; if the queue is then
\* empty, the tick ends with no move, jump or crouch input and the
\* inactivity timer as it was; otherwise the inactivity timer is reset and
\* the move-toward command targets the new head crumb's point.
C23_ArrivalPopsOne ==
    [][(/\ out'.op = "CreateMove" /\ out'.ret
        /\ crumbs # <<>>
        /\ LengthSqr(VecSub(crumbs[1].vec, v_Origin)) < ArrivalRadius * ArrivalRadius)
       => /\ crumbs' = Tail(crumbs)
          /\ IF crumbs' = <<>>
             THEN out'.walk = NoVec /\ out'.buttons = {} /\ inactivity' = inactivity
             ELSE inactivity' = Clock /\ out'.walk = crumbs'[1].vec]_vars

\* A tick popped the last crumb long after the route was planned: no input,
\* and the inactivity timer still shows the time of planning.
C23_Witness ==
    /\ out.op = "CreateMove" /\ out.ret
    /\ out.popped
    /\ out.walk = NoVec
    /\ crumbs = <<>>
    /\ inactivity # 0
    /\ inactivity < Clock

\* C24: a jump issued although the head crumb is not above the agent and
\* the crouch flag is clear happens only when at least half the stuck
\* timeout has passed since the last commit of a route, the last pop that
\* left the queue non-empty and the last tick of FollowCrumbs that saw the
\* agent move: each of these restarts the inactivity timer, nothing sets
\* it back, and the jump needs the timer to show half the timeout.
C24_StuckJumpAfterIdle ==
    [][/\ inactivity' >= inactivity
       /\ (out'.op = "navTo" /\ out'.ret) => inactivity' = Clock
       /\ (out'.op = "CreateMove" /\ out'.popped /\ crumbs' # <<>>) => inactivity' = Clock
       /\ (out'.op = "CreateMove" /\ out'.ret /\ crumbs # <<>> /\ ~out'.popped
              /\ out'.in.moving) => inactivity' = Clock
       /\ (/\ out'.op = "CreateMove"
           /\ IN_JUMP \in out'.buttons
           /\ ~crouch
           /\ ~(crumbs'[1].vec[3] - v_Origin[3] > JumpStep))
          => /\ inactivity' = inactivity
             /\ ~out'.popped
             /\ ~out'.in.moving
             /\ Clock - inactivity >= stuck_time \div 2]_vars

\* A tick has just started a jump toward a head crumb that is not above the
\* agent.
C24_Witness ==
    /\ out.op = "CreateMove"
    /\ IN_JUMP \in out.buttons
    /\ crumbs # <<>>
    /\ crumbs[1].vec[3] - v_Origin[3] <= JumpStep
    /\ Clock - inactivity >= stuck_time \div 2

\* C25: a tick on which the agent is not alive or not a valid entity is
\* skipped entirely: the crumb queue, the inactivity and last-jump timers,
\* the crouch flag and the ticks-since-jump counter are unchanged, and no
\* move, jump or crouch input is issued.
C25_SkippedTick ==
    [][(out'.op = "CreateMove" /\ (out'.in.bad \/ ~out'.in.alive))
       => /\ UNCHANGED <<crumbs, inactivity, last_jump, crouch, ticks_since_jump>>
          /\ out'.buttons = {}
          /\ out'.walk = NoVec]_vars

\* A tick came for a dead agent standing within the arrival radius of the
\* head crumb, with navigation ready: the crumb is still there.
C25_Witness ==
    /\ out.op = "CreateMove"
    /\ ~out.in.bad /\ ~out.in.alive
    /\ isReady
    /\ crumbs # <<>>
    /\ LengthSqr(VecSub(crumbs[1].vec, v_Origin)) < ArrivalRadius * ArrivalRadius

\* C26: once a route is committed, if the agent keeps coming within the
\* arrival radius of the head crumb and no new navTo is issued, the crumb
\* queue eventually becomes empty; an empty queue stays empty until the
\* next navTo.
C26_QueueDrains ==
    /\ (crumbs # <<>>) ~> (crumbs = <<>> \/ out.op = "navTo")
    /\ [][crumbs = <<>> => (crumbs' = <<>> \/ out'.op = "navTo")]_vars

\* The tick of a moving agent popped the last crumb of a route.
C26_Witness ==
    /\ out.op = "CreateMove"
    /\ out.popped
    /\ out.in.moving
    /\ crumbs = <<>>

\* C27: on a cache miss where both visibility checks pass, the edge is
\* offered at a cost equal to the distance between the mid waypoint and
\* the exit waypoint.
C27_FreshCostMidToExit ==
    out.op = "AdjacentCost" =>
        \A i \in DOMAIN out.evals :
            (/\ out.evals[i].basis = "fresh"
             /\ map.vischeck_cache[out.evals[i].key].vischeck_state)
            => /\ Len(out.evals[i].offer) = 1
               /\ out.evals[i].offer[1].cost =
                      DistTo(RayPoints(map.navfile.m_areas, out.evals[i].key[1],
                                       out.evals[i].key[2], world.apart).center,
                             RayPoints(map.navfile.m_areas, out.evals[i].key[1],
                                       out.evals[i].key[2], world.apart).next)

\* C28: a call of Map::updateIgnores resets the search oracle if and only
\* if it erased a cache entry; a call that finds no expired entry, or that
\* comes less than 1000 ms after the last call that swept, changes neither
\* the cache nor the oracle.
C28_ResetIffErased ==
    [][out'.op = "updateIgnores" =>
          /\ out'.reset <=> DOMAIN map'.vischeck_cache # DOMAIN map.vischeck_cache
          /\ map'.pather = IF out'.reset THEN PatherReset ELSE map.pather
          /\ (\/ Clock - despam < DespamMs
              \/ \A k \in DOMAIN map.vischeck_cache :
                     map.vischeck_cache[k].expire_tick >= tickcount)
             => map' = map /\ ~out'.reset]_vars

\* A sweep ran on a cache whose entries have not expired, with the oracle
\* holding the neighbours of a node: both are as they were.
C28_Witness ==
    /\ out.op = "updateIgnores" /\ out.ret
    /\ ~out.reset
    /\ out.erased = {}
    /\ DOMAIN map.vischeck_cache # {}
    /\ DOMAIN map.pather # {}

\* C29: when navTo is called with nav_to_local false, the start area (the
\* first entry of the route found) is removed before the expansion: the
\* crumbs are those of the rest of the route, none tagged with the start
\* area; when the search gives no route beyond the start area, navTo fails
\* and the crumb queue is left empty.
C29_StartAreaDropped ==
    (out.op = "navTo" /\ isReady /\ ~out.local) =>
        /\ out.ret =>
               /\ Len(out.path) >= 2
               /\ out.path[1] = findClosestNavSquare(map.navfile.m_areas, world, v_Origin)
               /\ \A i \in DOMAIN crumbs : crumbs[i].navarea # out.path[1]
               /\ {crumbs[i].navarea : i \in 1..(Len(crumbs) - 1)}
                      = {out.path[j] : j \in 2..Len(out.path)}
        /\ Len(out.path) <= 1 => ~out.ret /\ crumbs = <<>>

\* navTo committed a route of the areas A, B, C without its start area: the
\* crumbs of B and C and the destination crumb.
C29_Witness ==
    /\ out.op = "navTo" /\ out.ret /\ ~out.local
    /\ out.path = <<1, 2, 3>>
    /\ Len(crumbs) = 4
    /\ crumbs[1].navarea = 2

\* C30: whenever the crumb queue is not empty, its last crumb is the
\* area-less destination crumb of the most recent successful navTo and no
\* other crumb is area-less: a successful navTo leaves its destination
\* crumb last, every other step that leaves crumbs leaves the last one in
\* place, and no step leaves an area-less crumb before the last.
C30_DestinationCrumbLast ==
    [][/\ (out'.op = "navTo" /\ out'.ret)
          => crumbs' # <<>> /\ crumbs'[Len(crumbs')] = [navarea |-> NullArea, vec |-> out'.dest]
       /\ (~(out'.op = "navTo" /\ out'.ret) /\ crumbs' # <<>>)
          => crumbs # <<>> /\ crumbs'[Len(crumbs')] = crumbs[Len(crumbs)]
       /\ \A i \in 1..(Len(crumbs') - 1) : crumbs'[i].navarea # NullArea]_vars

\* Ticks have popped every crumb of a route but the destination crumb.
C30_Witness ==
    /\ out.op = "CreateMove"
    /\ out.popped
    /\ Len(crumbs) = 1
    /\ crumbs[1].navarea = NullArea

\* C31: between two calls of navTo the crumb queue only loses crumbs from
\* its head: a step that is not a navTo leaves the queue as it is, or is a
\* tick of a live, valid agent within the arrival radius of the head crumb
\* that removes that crumb alone; nothing is inserted, reordered or
\* skipped, and neither a stuck agent nor a dead one loses crumbs.
C31_QueueOnlyPopped ==
    [][out'.op # "navTo" =>
          \/ crumbs' = crumbs
          \/ /\ out'.op = "CreateMove"
             /\ ~out'.in.bad /\ out'.in.alive
             /\ crumbs # <<>>
             /\ LengthSqr(VecSub(crumbs[1].vec, v_Origin)) < ArrivalRadius * ArrivalRadius
             /\ crumbs' = Tail(crumbs)]_vars

\* A tick made an agent jump who has been stuck for the whole timeout, away
\* from the head crumb: the route is still waiting.
C31_Witness ==
    /\ out.op = "CreateMove"
    /\ IN_JUMP \in out.buttons
    /\ ~out.popped
    /\ Len(crumbs) > 1
    /\ Clock - inactivity >= stuck_time
    /\ LengthSqr(VecSub(crumbs[1].vec, v_Origin)) >= ArrivalRadius * ArrivalRadius

\* C32: for every connection A -> B that AdjacentCost evaluates, the drop
\* from the entry waypoint to the mid waypoint is large enough to make
\* handleDropdown correct the entry waypoint exactly when the connection is
\* excluded as too high; so for every connection that is not excluded the
\* corrected entry waypoint is A's centre, and the first of the two crumbs
\* navTo emits for A on a route that goes on to B over an offered
\* connection is A's centre, however the float angles round.
C32_EntryStaysCenter ==
    out.op = "AdjacentCost" =>
        \A i \in DOMAIN out.evals :
            /\ out.evals[i].basis = "excluded"
                   <=> -(EdgePoints(out.evals[i]).center[3]
                           - EdgePoints(out.evals[i]).current[3]) > PLAYER_JUMP_HEIGHT
            /\ out.evals[i].basis # "excluded"
                   => \A apart \in SUBSET {<<EdgePoints(out.evals[i]).current,
                                              EdgePoints(out.evals[i]).center>>} :
                          handleDropdown(EdgePoints(out.evals[i]).current,
                                         EdgePoints(out.evals[i]).center, apart)
                              = map.navfile.m_areas[out.evals[i].key[1]].m_center
            /\ out.evals[i].accepted
                   => \A apart \in SUBSET {<<EdgePoints(out.evals[i]).current,
                                              EdgePoints(out.evals[i]).center>>,
                                            <<EdgePoints(out.evals[i]).center,
                                              EdgePoints(out.evals[i]).next>>} :
                          ExpandPath(map.navfile.m_areas,
                                     <<out.evals[i].key[1], out.evals[i].key[2]>>, 1, apart)[1]
                              = Crumb(out.evals[i].key[1],
                                      map.navfile.m_areas[out.evals[i].key[1]].m_center)

\* The neighbours of the area C of the row were asked for: the edge down
\* the step to D is offered, its mid waypoint is moved by the dropdown
\* correction, its entry waypoint is not.
C32_Witness ==
    /\ out.op = "AdjacentCost"
    /\ level_name = Lvl_l
    /\ \E i \in DOMAIN out.evals :
          /\ out.evals[i].key = <<3, 4>>
          /\ out.evals[i].accepted
          /\ handleDropdown(EdgePoints(out.evals[i]).center, EdgePoints(out.evals[i]).next,
                            world.apart)
                 # EdgePoints(out.evals[i]).center
          /\ handleDropdown(EdgePoints(out.evals[i]).current, EdgePoints(out.evals[i]).center,
                            world.apart)
                 = EdgePoints(out.evals[i]).current

\* C33: a call of AdjacentCost for the area A leaves every cache entry it
\* found as it was (a cache hit does not extend the expiry) and adds
\* entries only for pairs (A, B) it evaluated on a cache miss of a
\* connection that is not excluded as too high: an excluded connection
\* gets no entry, and the entry of the reverse pair (B, A) is neither
\* created nor altered.
C33_CacheWriteFrame ==
    [][out'.op = "AdjacentCost" =>
          /\ \A k \in DOMAIN map.vischeck_cache :
                /\ k \in DOMAIN map'.vischeck_cache
                /\ map'.vischeck_cache[k] = map.vischeck_cache[k]
          /\ \A k \in DOMAIN map'.vischeck_cache \ DOMAIN map.vischeck_cache :
                \E i \in DOMAIN out'.evals :
                    /\ out'.evals[i].key = k
                    /\ out'.evals[i].basis = "fresh"
                    /\ EdgePoints(out'.evals[i]).current[3] - EdgePoints(out'.evals[i]).center[3]
                           <= PLAYER_JUMP_HEIGHT
          /\ \A i \in DOMAIN out'.evals :
                /\ out'.evals[i].key[1] = out'.evals[1].key[1]
                /\ out'.evals[i].key[2] # out'.evals[i].key[1]
                /\ out'.evals[i].key \in DOMAIN map.vischeck_cache
                       => out'.evals[i].basis # "fresh"
                /\ EdgePoints(out'.evals[i]).current[3] - EdgePoints(out'.evals[i]).center[3]
                           > PLAYER_JUMP_HEIGHT
                       => out'.evals[i].key \notin DOMAIN map'.vischeck_cache
                /\ <<out'.evals[i].key[2], out'.evals[i].key[1]>>
                           \in DOMAIN map'.vischeck_cache
                       => <<out'.evals[i].key[2], out'.evals[i].key[1]>>
                              \in DOMAIN map.vischeck_cache]_vars

\* Ticks after the pair (A, B) of the diagonal was cached, the neighbours of
\* B were asked for: the connection back to A is excluded and has no entry,
\* and the entry of (A, B) still carries its old expiry.
C33_Witness ==
    /\ out.op = "AdjacentCost"
    /\ level_name = Lvl_d
    /\ Len(out.evals) = 1
    /\ out.evals[1].key = <<2, 1>>
    /\ out.evals[1].basis = "excluded"
    /\ DOMAIN map.vischeck_cache = {<<1, 2>>}
    /\ map.vischeck_cache[<<1, 2>>].expire_tick < tickcount + CacheTicks

\* C34: a LevelInit for a level whose name has no dot, or one that cannot
\* get the working directory, changes nothing: the map with its state, its
\* visibility cache and its pather, the crumb queue and the timers are as
\* before, and an engine that was ready stays ready.
C34_FailedInitKeepsMap ==
    [][/\ out'.op = "LevelInit"
       /\ \/ \A i \in DOMAIN level_name' : level_name'[i] # "."
          \/ out'.branch = "nocwd"
       => /\ out'.branch \in {"nodot", "nocwd"}
          /\ map' = map
          /\ crumbs' = crumbs
          /\ UNCHANGED <<enabled, followVars, despam>>
          /\ isReady => isReady']_vars

\* The level without a dot in its name was entered while the map of an
\* earlier level was loaded and Active, with a visibility cache and a route
\* in the queue: all of it is still there.
C34_Witness ==
    /\ out.op = "LevelInit"
    /\ out.branch = "nodot"
    /\ level_name = Lvl_n
    /\ isReady
    /\ map.mapname = NavPath(Cwd, <<"t">>)
    /\ DOMAIN map.vischeck_cache # {}
    /\ crumbs # <<>>

\* C35: once a jump has set the crouch flag, the flag is cleared again
\* while the controller keeps being ticked with crumbs in the queue for an
\* agent on the ground: the flag does not stay set for ever unless the
\* queue runs empty.
C35_CrouchClears == crouch ~> (~crouch \/ crumbs = <<>>)

\* C36: findClosestNavSquare returns no area exactly when the mesh has no
\* areas; so on a mesh with at least one area navTo gets as far as asking
\* findPath for a path, however far from the mesh or hidden from it the
\* agent and the destination are, and on a mesh without areas it fails
\* before that.
C36_NoAreaIffEmptyMesh ==
    /\ out.op = "findClosestNavSquare"
           => (out.area = NullArea <=> map.navfile.m_areas = <<>>)
    /\ out.op = "navTo" /\ isReady
           => /\ (findClosestNavSquare(map.navfile.m_areas, world, v_Origin) = NullArea
                      <=> map.navfile.m_areas = <<>>)
              /\ (findClosestNavSquare(map.navfile.m_areas, world, out.dest) = NullArea
                      <=> map.navfile.m_areas = <<>>)
              /\ (out.result = <<>> <=> map.navfile.m_areas = <<>>)

\* navTo was called on the mesh with the stacked floors with every area
\* hidden, for an agent at (900,0,0), beyond every area, and a destination
\* high above them: both areas were resolved and findPath was asked.
C36_Witness ==
    /\ out.op = "navTo"
    /\ level_name = Lvl_s
    /\ world = FogOf(MeshStack, {1, 2, 3})
    /\ v_Origin = <<900, 0, 0>>
    /\ out.dest = <<100, 0, 500>>
    /\ \A a \in AreaIds(MeshStack) : ~IsOverlapping(MeshStack[a], v_Origin)
    /\ out.result # <<>>

====
